---- MODULE Spec2Model ----
(***************************************************************************)
(* rlog: the collector's pipeline (log RPC -> ingest queue -> batcher ->   *)
(* batch queue -> indexer -> quickwit) and the shipper's egress path       *)
(* (GELF connection -> gelf queue -> forwarder -> egress queue -> gRPC     *)
(* sender), as state machines over record identifiers.                     *)
(***************************************************************************)
EXTENDS Integers, Sequences, FiniteSets, TLC

\* ------------------------------------------------------------------ bounds

\* Number of records the producers submit (records are 1..MaxRecords).
MaxRecords == 4
\* quickwit_batch_size (100 in production), scaled down.
max_batch_size == 3
\* input_buffer_size of the ingest queue, scaled down.
input_buffer_size == 2
\* quickwit_output_buffer_size of the batch queue, scaled down.
output_buffer_size == 2
\* gelf_in.max_buffer_size of the shipper's gelf queue (20,000), scaled down.
gelf_buffer_size == 2
\* grpc_out.max_buffer_size of the shipper's egress queue (20,000), scaled down.
grpc_out_buffer_size == 2
\* max_wait_time of the batcher (1 s in production), in clock ticks.
max_wait_time == 3
\* syslog_in.max_buffer_size of the shipper's syslog queue (20,000), scaled down.
syslog_buffer_size == 2
\* Number of datagrams the syslog listener receives.
MaxDatagrams == 3
\* Number of frames the GELF client writes on its connection.
MaxFrames == 3
\* Number of failed log calls the egress sender is followed through.
MaxErrors == 2
\* The depth gauges are AtomicU64 and wrap at 2^64, scaled down.
GaugeModulus == 16
\* watch_log: async_channel::bounded(1).
files_buffer_size == 1
\* Longest list of exclusion filters a config snapshot carries.
MaxFilters == 2

Records == 1..MaxRecords

\* Statuses the indexer tells apart when quickwit answers a POST.
OK == "200"
TOO_MANY_REQUESTS == "429"
PAYLOAD_TOO_LARGE == "400 payload too large"
OTHER_STATUS == "other status"
TRANSPORT_ERROR == "transport error"

Responses == {OK, TOO_MANY_REQUESTS, PAYLOAD_TOO_LARGE, OTHER_STATUS, TRANSPORT_ERROR}

VARIABLES
    \* --- collector: log RPC and ingest queue (grpc_server.rs, batch.rs)
    next_id,        \* next record a producer will submit with the log RPC
    input_chan,     \* the bounded ingest queue (sender/receiver of batch.rs)
    input_closed,   \* receiver.close() was called on the ingest queue
    log_ok,         \* records whose log RPC returned OK
    log_unavailable,\* records whose log RPC returned Unavailable
    log_invalid,    \* records whose log RPC returned InvalidArgument
    log_request,    \* history: the LogLine of the last log call
    shutdown_token, \* the collector's CancellationToken is cancelled
    \* --- collector: batcher task (batch.rs)
    bpc,            \* "select" | "send" | "done"
    bafter,         \* where the batcher goes after the pending send_buffer
    buffer,         \* the batcher's buffer (the drained batch while bpc = "send")
    batch_chan,     \* the bounded batch queue, a sequence of batches
    sent_batches,   \* history: every batch the batcher put on the batch queue
    max_wait_elapsed, \* clock ticks since the batcher armed its max_wait sleep
    buffer_age,     \* history: ticks since the oldest record of buffer was pushed
    \* --- collector: indexer task (index.rs)
    ipc,            \* "top" | "post" | "check" | "recv" | "done" | "panicked"
    batch_to_send,  \* the Batch state
    batch,          \* the batch being POSTed (the local `batch`)
    last_post,      \* history: body and status of the last answered POST, and the
                    \* status of the one before
    discarded,      \* history: records dropped by split_because_of_err
    \* --- quickwit
    received,       \* documents quickwit accepted, in order
    \* --- shipper: a GELF client and its connection (gelf_server.rs)
    written,        \* frames the client wrote completely (records 1..written)
    client_partial, \* the frame whose bytes the client wrote without the 0 byte yet
    socket,         \* chunks written and not yet read by the connection handler
    client_closed,  \* the client closed its connection
    shipper_token,  \* the shipper's CancellationToken is cancelled
    listener_alive, \* the GELF accept loop runs (it owns a sender of the gelf queue)
    hpc,            \* connection handler: "run" | "done"
    hbuffer,        \* the handler's `buffer`: the unterminated frame it holds (0: empty)
    gelf_chan,      \* the bounded gelf queue
    GELF_ERROR_COUNT,
    GELF_QUEUE_COUNT,
    GELF_PROCESSED_COUNT, \* records the gelf forwarder took from its queue
    \* --- shipper: GELF forwarder (forward_loop.rs)
    fpc,            \* "recv" | "send" | "done"
    log_line,       \* the LogLine the forwarder is sending (0: none)
    \* --- shipper: syslog UDP listener and its forwarder (syslog_server.rs)
    datagrams,      \* datagrams the listener received so far
    spc,            \* listener: "run" | "done"
    syslog_chan,    \* the bounded syslog queue
    SYSLOG_ERROR_COUNT,
    SYSLOG_QUEUE_COUNT,
    SYSLOG_PROCESSED_COUNT, \* records the syslog forwarder took from its queue
    sfpc,           \* syslog forwarder: "recv" | "send" | "done"
    syslog_line,    \* the LogLine the syslog forwarder is sending (0: none)
    \* --- shipper: file tailer and its forwarder (log_file.rs)
    tpc,            \* tailer task: "select" | "send" | "done"
    files_chan,     \* the tailer's queue
    ffpc,           \* file forwarder: "recv" | "send" | "done"
    file_line,      \* the LogLine the file forwarder is sending (0: none)
    \* --- shipper: egress sender (grpc_out.rs)
    grpc_chan,      \* the bounded egress queue
    gpc,            \* "connect" | "top" | "call" | "select" | "done"
    current_log_line, \* Option<LogLine> (0: None); the local log_line during a call
    SHIPPER_QUEUE_COUNT,
    SHIPPER_PROCESSED_COUNT,
    SHIPPER_ERROR_COUNT,
    taken,          \* history: the records received from the egress queue, in order
    attempted,      \* history: records for which client.log was called
    consumed,       \* history: records answered OK, InvalidArgument or OutOfRange
    delivered,      \* history: the records answered OK, in order
    last_call,      \* history: record and code of the last answered log call
    \* --- shipper: syslog exclusion filters (syslog_server.rs, mod filters)
    exclusion_filters, \* CONFIG.syslog_in.exclusion_filters of the loaded snapshot
    message,           \* the parsed syslog message last given to is_excluded
    excluded,          \* what is_excluded returned for it under exclusion_filters
    \* --- collector: LogLine to IndexLogEntry (index.rs, rlog-grpc lib.rs)
    try_from_value,    \* the LogLine given to IndexLogEntry::try_from
    index_log_entry,   \* its result: None before the call, then Ok(entry) or Err
    \* --- common: the config store and its watcher (config.rs, config/dir.rs)
    directory,         \* the config directory: file -> None (no such file) or its content
    modified,          \* file -> its modification time
    last_modified,     \* the file watcher's last_modified
    config_store,      \* the published snapshot (the ArcSwap)
    notifications,     \* number of () sent on the watch channel
    config_watcher,    \* "none", then "file" or "dir" once set up ("failed" when the
                       \* initial load failed, "returned" when the channel was closed)
    watcher_log,       \* what the watcher's last reload logged
    \* --- shipper: what the GELF client sent (gelf_server.rs, TryFrom<GelfLog>)
    not_objects,       \* the frames whose JSON is no GELF object: no LogLine from them
    \* --- collector: metrics reported by one shipper queue (grpc_server.rs)
    metrics,                     \* the last Metrics request, None before the first
    collector_queue_gauge,       \* SHIPPER_QUEUE_COUNT of the (host, queue) labels
    collector_processed_counter, \* SHIPPER_PROCESSED_COUNT of the labels
    collector_error_counter,     \* SHIPPER_ERROR_COUNT of the labels
    report_metrics_response,     \* what the last report_metrics call returned
    \* --- severity of a GELF record (gelf_server.rs, rlog-grpc lib.rs, index.rs)
    level,             \* the "level" of the GELF JSON: None when it is no integer
    u64_value,         \* a numeric severity given to SyslogSeverity::from
    syslog_severity,   \* what SyslogSeverity::from(u64_value) returned
    gelf_severity,     \* the severity field of the GelfLogLine the shipper built
    gelf_severity_text, \* severity_text of the IndexLogEntry made from it
    \* --- shipper: the tailed path in the loaded config (log_file.rs)
    path_configured,   \* CONFIG.load().files_in.get(&path) is Some
    \* --- shipper: the bytes of one GELF connection (gelf_server.rs)
    stream,            \* the bytes the peer wrote, in order
    stream_read,       \* how many of them read_buf handed to the handler
    frame_buffer,      \* the handler's BytesMut
    decode_attempts,   \* history: the slices given to serde_json::from_slice
    frames_chan,       \* the gelf queue, holding the decoded frames
    frames_pc,         \* the handler: "run" | "done"
    \* --- collector: a log call suspended in sender.send (grpc_server.rs)
    log_pending,       \* the record of the suspended call (0: none)
    log_blocked,       \* history: the records whose call was suspended
    log_retried        \* history: the records a shipper sent again after Unavailable

timer_vars == <<max_wait_elapsed, buffer_age>>
log_results == <<log_ok, log_unavailable, log_invalid, log_request>>
collector_vars == <<next_id, input_chan, input_closed, log_results,
                    shutdown_token, bpc, bafter, buffer, batch_chan, sent_batches,
                    timer_vars>>
indexer_vars == <<ipc, batch_to_send, batch, last_post, discarded, received>>
gelf_in_vars == <<written, client_partial, socket, client_closed, listener_alive, hpc,
                  hbuffer, gelf_chan, GELF_ERROR_COUNT, GELF_QUEUE_COUNT,
                  GELF_PROCESSED_COUNT, fpc, log_line>>
syslog_in_vars == <<datagrams, spc, syslog_chan, SYSLOG_ERROR_COUNT, SYSLOG_QUEUE_COUNT,
                    SYSLOG_PROCESSED_COUNT, sfpc, syslog_line>>
files_in_vars == <<tpc, files_chan, ffpc, file_line>>
grpc_out_vars == <<grpc_chan, gpc, current_log_line, SHIPPER_QUEUE_COUNT,
                   SHIPPER_PROCESSED_COUNT, SHIPPER_ERROR_COUNT, taken, attempted,
                   consumed, delivered, last_call>>
shipper_vars == <<shipper_token, gelf_in_vars, syslog_in_vars, files_in_vars,
                  grpc_out_vars>>
filter_vars == <<exclusion_filters, message, excluded>>
convert_vars == <<try_from_value, index_log_entry>>
config_vars == <<directory, modified, last_modified, config_store, notifications,
                 config_watcher, watcher_log>>
report_vars == <<metrics, collector_queue_gauge, collector_processed_counter,
                 collector_error_counter, report_metrics_response>>
severity_vars == <<level, u64_value, syslog_severity, gelf_severity, gelf_severity_text>>
framing_vars == <<stream, stream_read, frame_buffer, decode_attempts, frames_chan,
                  frames_pc>>
pending_vars == <<log_pending, log_blocked, log_retried>>
later_vars == <<path_configured, framing_vars, pending_vars>>
more_vars == <<severity_vars, later_vars>>
extra_vars == <<not_objects, report_vars, more_vars>>
unit_vars == <<filter_vars, convert_vars, config_vars, extra_vars>>
vars == <<collector_vars, indexer_vars, shipper_vars, unit_vars>>

Range(s) == {s[i] : i \in 1..Len(s)}

\* Option<T>: None or Some(x).
None == <<>>
Some(x) == <<x>>
Opt(values) == {None} \cup {Some(x) : x \in values}

\* ------------------------------------------------------------ Batch (index.rs)

BatchNone == [tag |-> "None", to_send |-> <<>>, remaining |-> <<>>]
Single(elements) == [tag |-> "Single", to_send |-> <<>>, remaining |-> elements]
Splitted(to_send, remaining) ==
    [tag |-> "Splitted", to_send |-> to_send, remaining |-> remaining]

\* pop_elements: the value returned (some = FALSE for Option::None).
pop_elements_result(self) ==
    CASE self.tag = "Single" -> [some |-> TRUE, elements |-> self.remaining]
      [] self.tag = "Splitted" -> [some |-> TRUE, elements |-> self.to_send]
      [] OTHER -> [some |-> FALSE, elements |-> <<>>]

\* Mutant: pop_elements hands out to_send and leaves the Splitted state in place.
pop_elements_state_keeps_splitted(self) ==
    IF self.tag = "Splitted" THEN self ELSE BatchNone

\* pop_elements: the Batch state it leaves.
pop_elements_state(self) ==
    IF self.tag = "Splitted" THEN Single(self.remaining) ELSE BatchNone

\* split_because_of_err reaches its panic! branch.
split_panics(self, elements) ==
    Len(elements) > 1 /\ self.tag = "Splitted"

\* Mutant: split_off at the rounded-up half.
split_because_of_err_ceil_half(self, elements) ==
    IF Len(elements) <= 1 THEN self
    ELSE LET half == (Len(elements) + 1) \div 2
             first == SubSeq(elements, 1, half)
             remaining == SubSeq(elements, half + 1, Len(elements))
         IN  CASE self.tag = "Single" -> Splitted(first, remaining \o self.remaining)
               [] self.tag = "None" -> Splitted(first, remaining)
               [] OTHER -> self

\* Mutant: the early return tests elements.len() < 1, so a single record is split
\* into an empty to_send and itself.
split_because_of_err_keeps_single(self, elements) ==
    IF Len(elements) < 1 THEN self
    ELSE LET half == Len(elements) \div 2
             first == SubSeq(elements, 1, half)
             remaining == SubSeq(elements, half + 1, Len(elements))
         IN  CASE self.tag = "Single" -> Splitted(first, remaining \o self.remaining)
               [] self.tag = "None" -> Splitted(first, remaining)
               [] OTHER -> self

\* Mutant: to_send keeps the whole batch, split_off is applied to a clone.
split_because_of_err_keeps_whole(self, elements) ==
    IF Len(elements) <= 1 THEN self
    ELSE LET half == Len(elements) \div 2
             remaining == SubSeq(elements, half + 1, Len(elements))
         IN  CASE self.tag = "Single" -> Splitted(elements, remaining \o self.remaining)
               [] self.tag = "None" -> Splitted(elements, remaining)
               [] OTHER -> self

\* split_because_of_err: the Batch state it leaves (when it does not panic).
split_because_of_err(self, elements) ==
    IF Len(elements) <= 1 THEN self
    ELSE LET half == Len(elements) \div 2
             first == SubSeq(elements, 1, half)
             remaining == SubSeq(elements, half + 1, Len(elements))
         IN  CASE self.tag = "Single" -> Splitted(first, remaining \o self.remaining)
               [] self.tag = "None" -> Splitted(first, remaining)
               [] OTHER -> self

\* The records split_because_of_err drops.
split_discards(elements) ==
    IF Len(elements) <= 1 THEN Range(elements) ELSE {}

\* Mutant: pushing onto Single replaces the pending records.
push_elements_overwrites(self, elements) ==
    CASE self.tag = "Splitted" -> Splitted(self.to_send, self.remaining \o elements)
      [] OTHER -> Single(elements)

push_elements(self, elements) ==
    CASE self.tag = "Single" -> Single(self.remaining \o elements)
      [] self.tag = "Splitted" -> Splitted(self.to_send, self.remaining \o elements)
      [] OTHER -> Single(elements)

\* Mutant: Single counts as empty.
is_empty_unless_splitted(self) == self.tag # "Splitted"

is_empty(self) == self.tag = "None"

\* ------------------------------------------------------------------- Init

\* Every task of the collector and of the shipper right after start-up.
InitTasks ==
    /\ next_id = 1
    /\ input_chan = <<>>
    /\ input_closed = FALSE
    /\ log_ok = {}
    /\ log_unavailable = {}
    /\ log_invalid = {}
    /\ log_request = [timestamp |-> TRUE, line |-> "gelf", extra_is_object |-> TRUE]
    /\ shutdown_token = FALSE
    /\ bpc = "select"
    /\ bafter = "select"
    /\ buffer = <<>>
    /\ batch_chan = <<>>
    /\ sent_batches = <<>>
    /\ max_wait_elapsed = 0
    /\ buffer_age = 0
    /\ ipc = "top"
    /\ batch_to_send = BatchNone
    /\ batch = <<>>
    /\ last_post = [body |-> <<>>, status |-> "none", previous |-> "none"]
    /\ discarded = {}
    /\ received = <<>>
    /\ written = 0
    /\ client_partial = 0
    /\ socket = <<>>
    /\ client_closed = FALSE
    /\ shipper_token = FALSE
    /\ listener_alive = TRUE
    /\ hpc = "run"
    /\ hbuffer = 0
    /\ gelf_chan = <<>>
    /\ GELF_ERROR_COUNT = 0
    /\ GELF_QUEUE_COUNT = 0
    /\ GELF_PROCESSED_COUNT = 0
    /\ fpc = "recv"
    /\ log_line = 0
    /\ datagrams = 0
    /\ spc = "run"
    /\ syslog_chan = <<>>
    /\ SYSLOG_ERROR_COUNT = 0
    /\ SYSLOG_QUEUE_COUNT = 0
    /\ SYSLOG_PROCESSED_COUNT = 0
    /\ sfpc = "recv"
    /\ syslog_line = 0
    /\ tpc = "select"
    /\ files_chan = <<>>
    /\ ffpc = "recv"
    /\ file_line = 0
    /\ grpc_chan = <<>>
    /\ gpc = "connect"
    /\ current_log_line = 0
    /\ SHIPPER_QUEUE_COUNT = 0
    /\ SHIPPER_PROCESSED_COUNT = 0
    /\ SHIPPER_ERROR_COUNT = 0
    /\ taken = <<>>
    /\ attempted = {}
    /\ consumed = {}
    /\ delivered = <<>>
    /\ last_call = [record |-> 0, code |-> "none"]

\* The default config has no syslog_in section; no message was filtered yet.
InitFilters ==
    /\ exclusion_filters = <<>>
    /\ message = [appname |-> None, facility |-> None, msg |-> "plain line"]
    /\ excluded = None

\* No LogLine was converted yet.
InitConvert ==
    /\ try_from_value = [timestamp |-> TRUE, line |-> "gelf", extra_is_object |-> TRUE,
                         severity |-> "Info"]
    /\ index_log_entry = None

\* C::default()
TestConfig_default == [key \in {} |-> ""]

\* The files of the config directory, in the order glob_with yields their paths
\* (alphabetical): .hidden.yml, 01.yml, 02.yml, not-the-right-ext.xml.
FileNames ==
    <<[name |-> ".hidden.yml", leading_dot |-> TRUE, extension |-> "yml"],
      [name |-> "01.yml", leading_dot |-> FALSE, extension |-> "yml"],
      [name |-> "02.yml", leading_dot |-> FALSE, extension |-> "yml"],
      [name |-> "not-the-right-ext.xml", leading_dot |-> FALSE, extension |-> "xml"]>>

Files == 1..Len(FileNames)

\* No config was set up: the store holds the default, the directory is empty.
InitConfig ==
    /\ directory = [file \in Files |-> None]
    /\ modified = [file \in Files |-> 0]
    /\ last_modified = 0
    /\ config_store = TestConfig_default
    /\ notifications = 0
    /\ config_watcher = "none"
    /\ watcher_log = "none"

\* No GELF record was built yet.
InitSeverity ==
    /\ level = None
    /\ u64_value = 0
    /\ syslog_severity = None
    /\ gelf_severity = None
    /\ gelf_severity_text = None

\* Nothing was sent or reported yet.
InitReport ==
    /\ not_objects = {}
    /\ metrics = None
    /\ collector_queue_gauge = 0
    /\ collector_processed_counter = 0
    /\ collector_error_counter = 0
    /\ report_metrics_response = "none"

\* The tailed path is in files_in: a tailer is spawned for the paths of the config.
InitLater ==
    /\ path_configured = TRUE
    /\ stream = <<>>
    /\ stream_read = 0
    /\ frame_buffer = <<>>
    /\ decode_attempts = <<>>
    /\ frames_chan = <<>>
    /\ frames_pc = "run"
    /\ log_pending = 0
    /\ log_blocked = {}
    /\ log_retried = {}

InitExtra == InitReport /\ InitSeverity /\ InitLater

InitUnits == InitFilters /\ InitConvert /\ InitConfig /\ InitExtra

Init == InitTasks /\ InitUnits

\* ------------------------------------------------- log RPC (grpc_server.rs)

\* sender.send(log_entry) succeeded: the record is queued and the call returns OK.
\* A full queue suspends the call (the action is not enabled).
LogOk(r) ==
    /\ ~input_closed
    /\ Len(input_chan) < input_buffer_size
    /\ input_chan' = Append(input_chan, r)
    /\ log_ok' = log_ok \cup {r}
    /\ UNCHANGED <<log_unavailable, log_invalid>>

\* sender.send(log_entry) failed: the queue is closed, the call returns Unavailable.
LogUnavailable(r) ==
    /\ input_closed
    /\ log_unavailable' = log_unavailable \cup {r}
    /\ UNCHANGED <<input_chan, log_ok, log_invalid>>

\* A shipper calls log with the next record, a well-formed LogLine.
Log ==
    /\ next_id <= MaxRecords
    /\ (LogOk(next_id) \/ LogUnavailable(next_id))
    /\ next_id' = next_id + 1
    /\ UNCHANGED <<log_request, input_closed, shutdown_token, bpc, bafter, buffer, batch_chan,
                   sent_batches, timer_vars, indexer_vars, shipper_vars, unit_vars>>

\* The LogLine messages told apart by TryFrom<LogLine> for IndexLogEntry: whether
\* `timestamp` is set, which `line` variant is set, and whether `extra` parses as a
\* JSON object.
LogLines ==
    [timestamp : BOOLEAN, line : {"none", "gelf", "syslog", "generic"},
     extra_is_object : BOOLEAN]

\* IndexLogEntry::try_from(value) is Ok: timestamp and line are mandatory, and the
\* Gelf and GenericLog variants parse `extra` (the Syslog variant has none).
try_from_ok(value) ==
    /\ value.timestamp
    /\ value.line # "none"
    /\ (value.line \in {"gelf", "generic"} => value.extra_is_object)

\* Mutant: a rejected LogLine is queued all the same.
LogInvalidArgument_enqueues(r) ==
    /\ input_chan' = Append(input_chan, r)
    /\ log_invalid' = log_invalid \cup {r}
    /\ UNCHANGED <<log_ok, log_unavailable>>

\* try_from failed: the `?` returns Status::invalid_argument before any send.
LogInvalidArgument(r) ==
    /\ log_invalid' = log_invalid \cup {r}
    /\ UNCHANGED <<input_chan, log_ok, log_unavailable>>

\* LogCollector::log called with any LogLine.
LogCall ==
    /\ next_id <= MaxRecords
    /\ \E value \in LogLines :
          /\ log_request' = value
          /\ IF try_from_ok(value)
             THEN LogOk(next_id) \/ LogUnavailable(next_id)
             ELSE LogInvalidArgument(next_id)
    /\ next_id' = next_id + 1
    /\ UNCHANGED <<input_closed, shutdown_token, bpc, bafter, buffer, batch_chan,
                   sent_batches, timer_vars, indexer_vars, shipper_vars, unit_vars>>

\* What the steps of a suspended or repeated log call leave alone.
log_call_frame ==
    <<log_request, input_closed, shutdown_token, bpc, bafter, buffer, batch_chan,
      sent_batches, timer_vars, indexer_vars, shipper_vars, filter_vars, convert_vars,
      config_vars, not_objects, report_vars, severity_vars, path_configured,
      framing_vars>>

\* sender.send(log_entry).await of a well-formed LogLine finds the ingest queue
\* full: the call is suspended.
LogSuspend ==
    /\ next_id <= MaxRecords
    /\ log_pending = 0
    /\ ~input_closed
    /\ Len(input_chan) >= input_buffer_size
    /\ log_pending' = next_id
    /\ log_blocked' = log_blocked \cup {next_id}
    /\ next_id' = next_id + 1
    /\ UNCHANGED <<input_chan, log_results, log_retried, log_call_frame>>

\* Mutant: a send that was waiting when the queue was closed still completes.
LogResume_completes_when_closed ==
    /\ log_pending # 0
    /\ IF input_closed
       THEN /\ input_chan' = Append(input_chan, log_pending)
            /\ log_unavailable' = log_unavailable \cup {log_pending}
            /\ UNCHANGED <<log_ok, log_invalid>>
       ELSE LogOk(log_pending)
    /\ log_pending' = 0
    /\ UNCHANGED <<next_id, log_blocked, log_retried, log_call_frame>>

\* The suspended send completes: Err once the batcher closed the queue (the call
\* returns Unavailable), Ok when there is room.
LogResume ==
    /\ log_pending # 0
    /\ (LogOk(log_pending) \/ LogUnavailable(log_pending))
    /\ log_pending' = 0
    /\ UNCHANGED <<next_id, log_blocked, log_retried, log_call_frame>>

\* The shipper's send loop took an Unavailable answer and calls log with the same
\* record again.
LogRetry ==
    /\ \E r \in log_unavailable \ log_retried :
          /\ (LogOk(r) \/ LogUnavailable(r))
          /\ log_retried' = log_retried \cup {r}
    /\ UNCHANGED <<next_id, log_pending, log_blocked, log_call_frame>>

\* CollectorServer::shutdown: shutdown_token.cancel().
Shutdown ==
    /\ ~shutdown_token
    /\ shutdown_token' = TRUE
    /\ UNCHANGED <<next_id, input_chan, input_closed, log_results,
                   bpc, bafter, buffer, batch_chan, sent_batches, timer_vars,
                   indexer_vars, shipper_vars, unit_vars>>

\* ------------------------------------------------------- batcher (batch.rs)

\* send_buffer up to its await: with an empty buffer it returns at once, otherwise
\* the drained batch waits for room in the batch queue.
StartSendBuffer(buf, after) ==
    IF Len(buf) > 0
    THEN bpc' = "send" /\ bafter' = after
    ELSE bpc' = after /\ bafter' = "select"

\* Mutant: the ingest queue is closed but not drained before the last send.
BatcherShutdown_no_drain ==
    /\ bpc = "select"
    /\ shutdown_token
    /\ input_closed' = TRUE
    /\ StartSendBuffer(buffer, "done")
    /\ UNCHANGED <<next_id, input_chan, buffer, log_results, shutdown_token,
                   batch_chan, sent_batches, indexer_vars, shipper_vars, unit_vars>>

\* select!: shutdown_token.cancelled(). Close the ingest queue, drain it into the
\* buffer, send the buffer and exit.
BatcherShutdown ==
    /\ bpc = "select"
    /\ shutdown_token
    /\ input_closed' = TRUE
    /\ buffer' = buffer \o input_chan
    /\ input_chan' = <<>>
    /\ StartSendBuffer(buffer', "done")
    /\ UNCHANGED <<next_id, log_results, shutdown_token, batch_chan,
                   sent_batches, indexer_vars, shipper_vars, unit_vars>>

\* select!: max_wait elapsed. Send the buffer (no-op when it is empty).
BatcherMaxWait ==
    /\ bpc = "select"
    /\ Len(buffer) > 0
    /\ StartSendBuffer(buffer, "select")
    /\ UNCHANGED <<next_id, input_chan, input_closed, log_results,
                   shutdown_token, buffer, batch_chan, sent_batches, indexer_vars,
                   shipper_vars, unit_vars>>

\* Mutant: the batch is sent one record late.
batch_completed_late(buf) == Len(buf) > max_batch_size

\* buffer.len() == *max_batch_size.load()
batch_completed(buf) == Len(buf) = max_batch_size

\* select!: Ok(log_line) = receiver.recv(). Push, and send a completed batch.
BatcherRecv ==
    /\ bpc = "select"
    /\ Len(input_chan) > 0
    /\ buffer' = Append(buffer, Head(input_chan))
    /\ input_chan' = Tail(input_chan)
    /\ IF batch_completed(buffer')
       THEN StartSendBuffer(buffer', "select")
       ELSE UNCHANGED <<bpc, bafter>>
    /\ UNCHANGED <<next_id, input_closed, log_results, shutdown_token,
                   batch_chan, sent_batches, indexer_vars, shipper_vars, unit_vars>>

\* batch_sender.send(batch).await completes: the batch is queued, or the send fails
\* because the indexer dropped its receiver (logged, the batch is lost).
BatcherSend ==
    /\ bpc = "send"
    /\ IF ipc \in {"done", "panicked"}
       THEN UNCHANGED <<batch_chan, sent_batches>>
       ELSE /\ Len(batch_chan) < output_buffer_size
            /\ batch_chan' = Append(batch_chan, buffer)
            /\ sent_batches' = Append(sent_batches, buffer)
    /\ buffer' = <<>>
    /\ bpc' = bafter
    /\ bafter' = "select"
    /\ UNCHANGED <<next_id, input_chan, input_closed, log_results,
                   shutdown_token, indexer_vars, shipper_vars, unit_vars>>

\* Mutant: the indexer sees the batch queue closed as soon as the token is cancelled.
batch_chan_closed_on_token == shutdown_token

\* The batch queue is closed once the batcher task, its only sender, has returned.
batch_chan_closed == bpc = "done"

\* ------------------------------------------------------- indexer (index.rs)

\* Loop top: batch_to_send.pop_elements(); a popped batch is POSTed.
IndexerPop ==
    /\ ipc = "top"
    /\ LET popped == pop_elements_result(batch_to_send)
       IN  /\ batch_to_send' = pop_elements_state(batch_to_send)
           /\ IF popped.some
              THEN batch' = popped.elements /\ ipc' = "post"
              ELSE batch' = <<>> /\ ipc' = "check"
    /\ UNCHANGED <<collector_vars, shipper_vars, unit_vars, last_post, discarded, received>>

\* Mutant: the 429 branch does not push the batch back.
response_state_429_not_pushed(self, elements, status) ==
    CASE status = OK -> self
      [] status = TOO_MANY_REQUESTS -> self
      [] status = PAYLOAD_TOO_LARGE -> split_because_of_err(self, elements)
      [] OTHER -> push_elements(self, elements)

\* The Batch state the response policy leaves for a POST of `elements` answered
\* `status`: 200 keeps it, 400 payload-too-large splits, 429, any other status and
\* a transport error push the batch back.
response_state(self, elements, status) ==
    CASE status = OK -> self
      [] status = PAYLOAD_TOO_LARGE -> split_because_of_err(self, elements)
      [] OTHER -> push_elements(self, elements)

\* Quickwit answers the POST (or the request fails) with `status`.
IndexerResponse(status) ==
    /\ ipc = "post"
    /\ last_post' = [body |-> batch, status |-> status, previous |-> last_post.status]
    /\ batch' = <<>>
    /\ IF status = PAYLOAD_TOO_LARGE /\ split_panics(batch_to_send, batch)
       THEN /\ ipc' = "panicked"
            /\ UNCHANGED <<batch_to_send, discarded, received>>
       ELSE /\ batch_to_send' = response_state(batch_to_send, batch, status)
            /\ discarded' = IF status = PAYLOAD_TOO_LARGE
                            THEN discarded \cup split_discards(batch)
                            ELSE discarded
            /\ received' = IF status = OK THEN received \o batch ELSE received
            \* 200 falls through to the is_empty test, the others `continue`
            /\ ipc' = IF status = OK THEN "check" ELSE "top"
    /\ UNCHANGED <<collector_vars, shipper_vars, unit_vars>>

\* if batch_to_send.is_empty() { recv } else loop again.
IndexerCheck ==
    /\ ipc = "check"
    /\ ipc' = IF is_empty(batch_to_send) THEN "recv" ELSE "top"
    /\ UNCHANGED <<collector_vars, shipper_vars, unit_vars, batch_to_send, batch, last_post,
                   discarded, received>>

\* batch_receiver.recv().await: a batch, or Err once the queue is closed and empty.
IndexerRecv ==
    /\ ipc = "recv"
    /\ IF Len(batch_chan) > 0
       THEN /\ batch_to_send' = push_elements(batch_to_send, Head(batch_chan))
            /\ batch_chan' = Tail(batch_chan)
            /\ ipc' = "top"
       ELSE /\ batch_chan_closed
            /\ ipc' = "done"
            /\ UNCHANGED <<batch_to_send, batch_chan>>
    /\ UNCHANGED <<next_id, input_chan, input_closed, log_results,
                   shutdown_token, bpc, bafter, buffer, sent_batches, timer_vars,
                   batch, last_post, discarded, received, shipper_vars, unit_vars>>

Indexer ==
    \/ IndexerPop
    \/ \E status \in Responses : IndexerResponse(status)
    \/ IndexerCheck
    \/ IndexerRecv

\* The batcher with time left out: the max_wait sleep may complete at any moment.
Batcher ==
    \/ BatcherShutdown /\ UNCHANGED timer_vars
    \/ BatcherMaxWait /\ UNCHANGED timer_vars
    \/ BatcherRecv /\ UNCHANGED timer_vars
    \/ BatcherSend /\ UNCHANGED timer_vars

Next ==
    \/ Log
    \/ Shutdown
    \/ Batcher
    \/ Indexer

Spec == Init /\ [][Next]_vars

\* The collector with its tasks scheduled fairly, every POST answered, and a
\* quickwit that eventually answers 200: a POST that keeps being made is not
\* refused for ever.
SpecLive ==
    /\ Init /\ [][Next]_vars
    /\ WF_vars(Batcher)
    /\ WF_vars(Indexer)
    /\ SF_vars(IndexerResponse(OK))

\* The collector in front of a quickwit that rejects only oversized payloads: every
\* answer is 200 or 400 payload-too-large. The indexer task is scheduled fairly and
\* every POST is answered.
IndexerOversize ==
    \/ IndexerPop
    \/ \E status \in {OK, PAYLOAD_TOO_LARGE} : IndexerResponse(status)
    \/ IndexerCheck
    \/ IndexerRecv

NextOversize ==
    \/ Log
    \/ Shutdown
    \/ Batcher
    \/ IndexerOversize

SpecOversize == Init /\ [][NextOversize]_vars /\ WF_vars(IndexerOversize)

\* ------------------------------------------------ the batcher's max_wait timer

\* One clock tick passes while the batcher waits in select! with nothing ready:
\* no record in the ingest queue, the token not cancelled, the sleep not yet due.
Tick ==
    /\ bpc = "select"
    /\ input_chan = <<>>
    /\ ~shutdown_token
    /\ max_wait_elapsed < max_wait_time
    /\ max_wait_elapsed' = max_wait_elapsed + 1
    /\ buffer_age' = IF Len(buffer) > 0 THEN buffer_age + 1 ELSE 0
    /\ UNCHANGED <<next_id, input_chan, input_closed, log_results,
                   shutdown_token, bpc, bafter, buffer, batch_chan, sent_batches,
                   indexer_vars, shipper_vars, unit_vars>>

\* select!: _ = max_wait, the sleep armed at the top of this loop iteration is due.
\* send_buffer, then the loop starts again and arms a new sleep.
BatcherMaxWaitDue ==
    /\ max_wait_elapsed = max_wait_time
    /\ IF Len(buffer) > 0
       THEN BatcherMaxWait
       ELSE /\ bpc = "select"
            /\ UNCHANGED <<next_id, input_chan, input_closed, log_results,
                           shutdown_token, bpc, bafter, buffer, batch_chan,
                           sent_batches, indexer_vars, shipper_vars, unit_vars>>
    /\ max_wait_elapsed' = 0
    /\ UNCHANGED buffer_age

\* select!: Ok(log_line) = receiver.recv(). The loop starts again: `max_wait` is a
\* new tokio::time::sleep(max_wait_time), whatever time the previous one had left.
BatcherRecvTimed ==
    /\ BatcherRecv
    /\ max_wait_elapsed' = 0
    /\ buffer_age' = IF Len(buffer) = 0 THEN 0 ELSE buffer_age

\* send_buffer completes: the buffer is drained and the loop arms a new sleep.
BatcherSendTimed ==
    /\ BatcherSend
    /\ max_wait_elapsed' = 0
    /\ buffer_age' = 0

BatcherShutdownTimed == BatcherShutdown /\ UNCHANGED timer_vars

\* The collector with the clock: the batcher's sleep is due exactly max_wait_time
\* ticks after it was armed, and quickwit answers 200.
NextTimed ==
    \/ Log
    \/ Shutdown
    \/ Tick
    \/ BatcherMaxWaitDue
    \/ BatcherRecvTimed
    \/ BatcherSendTimed
    \/ BatcherShutdownTimed
    \/ IndexerPop
    \/ IndexerResponse(OK)
    \/ IndexerCheck
    \/ IndexerRecv

SpecTimed == Init /\ [][NextTimed]_vars

\* The collector called with any LogLine, in front of a quickwit that answers 200.
NextLog ==
    \/ LogCall
    \/ Shutdown
    \/ Batcher
    \/ IndexerPop
    \/ IndexerResponse(OK)
    \/ IndexerCheck
    \/ IndexerRecv

SpecLog == Init /\ [][NextLog]_vars

\* The same collector with log calls that may be suspended on a full ingest queue
\* and shippers that repeat a call answered Unavailable.
NextRetry ==
    \/ LogCall \/ LogSuspend \/ LogResume \/ LogRetry
    \/ Shutdown
    \/ Batcher
    \/ IndexerPop
    \/ IndexerResponse(OK)
    \/ IndexerCheck
    \/ IndexerRecv

SpecRetry == Init /\ [][NextRetry]_vars

\* ------------------------------------------------------ shipper: bounded queues

\* Mutant: a queue is full only once it holds more than its capacity.
is_full_above_capacity(chan, capacity) == Len(chan) > capacity

\* A bounded queue holds `capacity` items: try_send returns Full, send suspends.
is_full(chan, capacity) == Len(chan) >= capacity

\* Mutant: a full queue drops its oldest record to take the new one.
try_send_drops_oldest(chan, capacity, value) ==
    IF is_full(chan, capacity) THEN Append(Tail(chan), value) ELSE Append(chan, value)

\* The queue after sender.try_send(value): unchanged on Err(Full(value)).
try_send(chan, capacity, value) ==
    IF is_full(chan, capacity) THEN chan ELSE Append(chan, value)

\* AtomicU64::fetch_add(1) and fetch_sub(1) on a depth gauge: wrapping arithmetic.
fetch_add(gauge) == (gauge + 1) % GaugeModulus
fetch_sub(gauge) == (gauge - 1) % GaugeModulus

\* ------------------------------------------- shipper: GELF ingress (gelf_server.rs)

\* What one socket read hands to the handler: a complete frame, the bytes of a
\* frame without its 0 byte, or the 0 byte that ends the frame being buffered.
Chunk(r, part) == [id |-> r, part |-> part]

\* GelfLogger::send_log, its two writes arriving together: one NUL-terminated frame.
ClientWrite ==
    /\ ~client_closed
    /\ ~shipper_token
    /\ client_partial = 0
    /\ written < MaxFrames
    /\ written' = written + 1
    /\ socket' = Append(socket, Chunk(written + 1, "whole"))
    /\ UNCHANGED <<client_partial, client_closed, shipper_token, listener_alive, hpc,
                   hbuffer, gelf_chan, GELF_ERROR_COUNT, GELF_QUEUE_COUNT, fpc, log_line,
                   GELF_PROCESSED_COUNT,
                   syslog_in_vars, files_in_vars, grpc_out_vars,
                   collector_vars, indexer_vars, unit_vars>>

\* A client writes a frame of valid JSON that is no GELF log (not an object, or
\* without host, timestamp or short_message).
ClientWriteNotObject ==
    /\ ~client_closed
    /\ ~shipper_token
    /\ client_partial = 0
    /\ written < MaxFrames
    /\ written' = written + 1
    /\ socket' = Append(socket, Chunk(written + 1, "whole"))
    /\ not_objects' = not_objects \cup {written + 1}
    /\ UNCHANGED <<client_partial, client_closed, shipper_token, listener_alive, hpc,
                   hbuffer, gelf_chan, GELF_ERROR_COUNT, GELF_QUEUE_COUNT, fpc, log_line,
                   GELF_PROCESSED_COUNT,
                   syslog_in_vars, files_in_vars, grpc_out_vars,
                   collector_vars, indexer_vars, filter_vars, convert_vars, config_vars,
                   report_vars, more_vars>>

\* GelfLogger::send_log, stream.write_all(&bytes): the frame without its 0 byte.
ClientWriteBytes ==
    /\ ~client_closed
    /\ ~shipper_token
    /\ client_partial = 0
    /\ written < MaxFrames
    /\ client_partial' = written + 1
    /\ socket' = Append(socket, Chunk(written + 1, "head"))
    /\ UNCHANGED <<written, client_closed, shipper_token, listener_alive, hpc,
                   hbuffer, gelf_chan, GELF_ERROR_COUNT, GELF_QUEUE_COUNT, fpc, log_line,
                   GELF_PROCESSED_COUNT,
                   syslog_in_vars, files_in_vars, grpc_out_vars,
                   collector_vars, indexer_vars, unit_vars>>

\* GelfLogger::send_log, stream.write_u8(0): the frame is complete.
ClientWriteNul ==
    /\ ~client_closed
    /\ client_partial # 0
    /\ written' = client_partial
    /\ client_partial' = 0
    /\ socket' = Append(socket, Chunk(client_partial, "tail"))
    /\ UNCHANGED <<client_closed, shipper_token, listener_alive, hpc,
                   hbuffer, gelf_chan, GELF_ERROR_COUNT, GELF_QUEUE_COUNT, fpc, log_line,
                   GELF_PROCESSED_COUNT,
                   syslog_in_vars, files_in_vars, grpc_out_vars,
                   collector_vars, indexer_vars, unit_vars>>

\* The test client drops its logger: the connection is closed.
ClientClose ==
    /\ ~client_closed
    /\ client_closed' = TRUE
    /\ UNCHANGED <<written, client_partial, socket, shipper_token, listener_alive, hpc,
                   hbuffer, gelf_chan, GELF_ERROR_COUNT, GELF_QUEUE_COUNT, fpc, log_line,
                   GELF_PROCESSED_COUNT,
                   syslog_in_vars, files_in_vars, grpc_out_vars,
                   collector_vars, indexer_vars, unit_vars>>

\* ShipperServer::shutdown: shutdown_token.cancel().
ShipperShutdown ==
    /\ ~shipper_token
    /\ shipper_token' = TRUE
    /\ UNCHANGED <<gelf_in_vars, syslog_in_vars, files_in_vars, grpc_out_vars,
                   collector_vars, indexer_vars, unit_vars>>

\* Accept loop, select!: shutdown_token.cancelled() => return.
ListenerCancelled ==
    /\ listener_alive
    /\ shipper_token
    /\ listener_alive' = FALSE
    /\ UNCHANGED <<written, client_partial, socket, client_closed, shipper_token, hpc,
                   hbuffer, gelf_chan, GELF_ERROR_COUNT, GELF_QUEUE_COUNT, fpc, log_line,
                   GELF_PROCESSED_COUNT,
                   syslog_in_vars, files_in_vars, grpc_out_vars,
                   collector_vars, indexer_vars, unit_vars>>

\* Connection handler, select!: socket.read_buf returned bytes. Bytes without a
\* 0 byte stay in the buffer. A complete frame is decoded and try_send'ed: Ok
\* increments the depth gauge; on Full the frame is discarded, the error counter
\* incremented and the handler returns.
HandlerRead ==
    /\ hpc = "run"
    /\ Len(socket) > 0
    /\ socket' = Tail(socket)
    /\ IF Head(socket).part = "head"
       THEN /\ hbuffer' = Head(socket).id
            /\ UNCHANGED <<gelf_chan, GELF_ERROR_COUNT, GELF_QUEUE_COUNT, hpc>>
       ELSE /\ hbuffer' = 0
            /\ gelf_chan' = try_send(gelf_chan, gelf_buffer_size, Head(socket).id)
            /\ IF is_full(gelf_chan, gelf_buffer_size)
               THEN /\ GELF_ERROR_COUNT' = GELF_ERROR_COUNT + 1
                    /\ hpc' = "done"
                    /\ UNCHANGED GELF_QUEUE_COUNT
               ELSE /\ GELF_QUEUE_COUNT' = fetch_add(GELF_QUEUE_COUNT)
                    /\ UNCHANGED <<GELF_ERROR_COUNT, hpc>>
    /\ UNCHANGED <<written, client_partial, client_closed, shipper_token,
                   listener_alive, fpc, log_line,
                   GELF_PROCESSED_COUNT,
                   syslog_in_vars, files_in_vars, grpc_out_vars,
                   collector_vars, indexer_vars, unit_vars>>

\* Connection handler, select!: read_buf returned 0 => break, with an empty buffer
\* or not ("Connection reset by peer").
HandlerEof ==
    /\ hpc = "run"
    /\ Len(socket) = 0
    /\ client_closed
    /\ hpc' = "done"
    /\ UNCHANGED <<written, client_partial, socket, client_closed, shipper_token,
                   listener_alive, hbuffer, gelf_chan, GELF_ERROR_COUNT,
                   GELF_QUEUE_COUNT, fpc, log_line,
                   GELF_PROCESSED_COUNT,
                   syslog_in_vars, files_in_vars, grpc_out_vars,
                   collector_vars, indexer_vars, unit_vars>>

\* Connection handler, select!: shutdown_token.cancelled() with an empty buffer =>
\* return; chunks still in the socket are not read. With a non-empty buffer the
\* branch only logs and the handler selects again.
HandlerCancelled ==
    /\ hpc = "run"
    /\ shipper_token
    /\ hbuffer = 0
    /\ hpc' = "done"
    /\ UNCHANGED <<written, client_partial, socket, client_closed, shipper_token,
                   listener_alive, hbuffer, gelf_chan, GELF_ERROR_COUNT,
                   GELF_QUEUE_COUNT, fpc, log_line,
                   GELF_PROCESSED_COUNT,
                   syslog_in_vars, files_in_vars, grpc_out_vars,
                   collector_vars, indexer_vars, unit_vars>>

\* The gelf queue is closed once every sender is dropped: the accept loop's and
\* the connection handler's.
gelf_chan_closed == ~listener_alive /\ hpc = "done"

\* ---------------------------------------------- shipper: forwarder (forward_loop.rs)

\* Mutant: every GelfLog converts.
LogLine_try_from_always_ok(record) == TRUE

\* LogLine::try_from(GelfLog) is Ok: the JSON is an object with a `host` string, a
\* `timestamp` number and a `short_message` string.
LogLine_try_from_is_ok(record) == record \notin not_objects

\* input.recv().await: a record, or None once the gelf queue is closed and empty.
\* The record is counted, then converted to a LogLine; one that does not convert
\* is counted as an error and the loop continues with the next recv.
ForwarderRecv ==
    /\ fpc = "recv"
    /\ IF Len(gelf_chan) > 0
       THEN /\ gelf_chan' = Tail(gelf_chan)
            /\ GELF_QUEUE_COUNT' = fetch_sub(GELF_QUEUE_COUNT)
            /\ GELF_PROCESSED_COUNT' = GELF_PROCESSED_COUNT + 1
            /\ IF LogLine_try_from_is_ok(Head(gelf_chan))
               THEN /\ log_line' = Head(gelf_chan)
                    /\ fpc' = "send"
                    /\ UNCHANGED GELF_ERROR_COUNT
               ELSE /\ GELF_ERROR_COUNT' = GELF_ERROR_COUNT + 1
                    /\ UNCHANGED <<log_line, fpc>>
       ELSE /\ gelf_chan_closed
            /\ fpc' = "done"
            /\ UNCHANGED <<log_line, gelf_chan, GELF_QUEUE_COUNT, GELF_PROCESSED_COUNT,
                           GELF_ERROR_COUNT>>
    /\ UNCHANGED <<written, client_partial, socket, client_closed, shipper_token,
                   listener_alive, hpc, hbuffer,
                   syslog_in_vars, files_in_vars, grpc_out_vars,
                   collector_vars, indexer_vars, unit_vars>>

\* Mutant: the forwarder's record jumps the egress queue.
ForwardSend_to_front(line) ==
    IF gpc = "done"
    THEN UNCHANGED <<grpc_chan, SHIPPER_QUEUE_COUNT>>
    ELSE /\ ~is_full(grpc_chan, grpc_out_buffer_size)
         /\ grpc_chan' = <<line>> \o grpc_chan
         /\ SHIPPER_QUEUE_COUNT' = fetch_add(SHIPPER_QUEUE_COUNT)

\* grpc_out.send(log_line).await of a forwarder whose record is `line`: queued and
\* the egress gauge incremented, or Err because the egress sender dropped its
\* receiver ("Channel closed!", break). TRUE when the forwarder goes on.
ForwardSend(line) ==
    IF gpc = "done"
    THEN UNCHANGED <<grpc_chan, SHIPPER_QUEUE_COUNT>>
    ELSE /\ ~is_full(grpc_chan, grpc_out_buffer_size)
         /\ grpc_chan' = Append(grpc_chan, line)
         /\ SHIPPER_QUEUE_COUNT' = fetch_add(SHIPPER_QUEUE_COUNT)

ForwarderSend ==
    /\ fpc = "send"
    /\ ForwardSend(log_line)
    /\ fpc' = IF gpc = "done" THEN "done" ELSE "recv"
    /\ log_line' = 0
    /\ UNCHANGED <<written, client_partial, socket, client_closed, shipper_token,
                   listener_alive, hpc, hbuffer, gelf_chan, GELF_ERROR_COUNT,
                   GELF_QUEUE_COUNT, GELF_PROCESSED_COUNT, syslog_in_vars, files_in_vars,
                   gpc, current_log_line, SHIPPER_PROCESSED_COUNT, SHIPPER_ERROR_COUNT,
                   taken, attempted, consumed, delivered, last_call,
                   collector_vars, indexer_vars, unit_vars>>

\* The egress queue is closed once every forwarder, its senders, has returned.
grpc_chan_closed == fpc = "done" /\ sfpc = "done" /\ ffpc = "done"

\* ------------------------------------- shipper: syslog ingress (syslog_server.rs)

\* Records of the syslog source and of the tailed file follow the GELF records.
SyslogRecord(n) == MaxFrames + n
FileRecord == MaxFrames + MaxDatagrams + 1

\* select!: socket.recv_from returned a datagram. It is parsed and try_send'ed: Ok
\* increments the depth gauge; on Full the message is discarded, the error counter
\* incremented and the listener task returns.
SyslogReceive ==
    /\ spc = "run"
    /\ datagrams < MaxDatagrams
    /\ datagrams' = datagrams + 1
    /\ syslog_chan' = try_send(syslog_chan, syslog_buffer_size, SyslogRecord(datagrams + 1))
    /\ IF is_full(syslog_chan, syslog_buffer_size)
       THEN /\ SYSLOG_ERROR_COUNT' = SYSLOG_ERROR_COUNT + 1
            /\ spc' = "done"
            /\ UNCHANGED SYSLOG_QUEUE_COUNT
       ELSE /\ SYSLOG_QUEUE_COUNT' = fetch_add(SYSLOG_QUEUE_COUNT)
            /\ UNCHANGED <<SYSLOG_ERROR_COUNT, spc>>
    /\ UNCHANGED <<sfpc, syslog_line, SYSLOG_PROCESSED_COUNT,
                   shipper_token, gelf_in_vars, files_in_vars,
                   grpc_out_vars, collector_vars, indexer_vars, unit_vars>>

\* select!: shutdown_token.cancelled() => return.
SyslogCancelled ==
    /\ spc = "run"
    /\ shipper_token
    /\ spc' = "done"
    /\ UNCHANGED <<datagrams, syslog_chan, SYSLOG_ERROR_COUNT, SYSLOG_QUEUE_COUNT,
                   sfpc, syslog_line, SYSLOG_PROCESSED_COUNT,
                   shipper_token, gelf_in_vars, files_in_vars,
                   grpc_out_vars, collector_vars, indexer_vars, unit_vars>>

\* The syslog queue is closed once the listener task, its only sender, returned.
syslog_chan_closed == spc = "done"

\* forward_loop of syslog_in: input.recv().await.
SyslogForwarderRecv ==
    /\ sfpc = "recv"
    /\ IF Len(syslog_chan) > 0
       THEN /\ syslog_line' = Head(syslog_chan)
            /\ syslog_chan' = Tail(syslog_chan)
            /\ SYSLOG_QUEUE_COUNT' = fetch_sub(SYSLOG_QUEUE_COUNT)
            /\ SYSLOG_PROCESSED_COUNT' = SYSLOG_PROCESSED_COUNT + 1
            /\ sfpc' = "send"
       ELSE /\ syslog_chan_closed
            /\ sfpc' = "done"
            /\ UNCHANGED <<syslog_line, syslog_chan, SYSLOG_QUEUE_COUNT,
                           SYSLOG_PROCESSED_COUNT>>
    /\ UNCHANGED <<datagrams, spc, SYSLOG_ERROR_COUNT, shipper_token, gelf_in_vars,
                   files_in_vars, grpc_out_vars, collector_vars, indexer_vars, unit_vars>>

\* forward_loop of syslog_in: grpc_out.send(log_line).await.
SyslogForwarderSend ==
    /\ sfpc = "send"
    /\ ForwardSend(syslog_line)
    /\ sfpc' = IF gpc = "done" THEN "done" ELSE "recv"
    /\ syslog_line' = 0
    /\ UNCHANGED <<datagrams, spc, syslog_chan, SYSLOG_ERROR_COUNT, SYSLOG_QUEUE_COUNT,
                   SYSLOG_PROCESSED_COUNT, shipper_token, gelf_in_vars, files_in_vars,
                   gpc, current_log_line, SHIPPER_PROCESSED_COUNT, SHIPPER_ERROR_COUNT,
                   taken, attempted, consumed, delivered, last_call,
                   collector_vars, indexer_vars, unit_vars>>

\* ------------------------- shipper: GELF framing, byte by byte (gelf_server.rs)

\* The longest byte stream tried.
MaxBytes == 7

\* Bytes: 0 ends a frame, 1 is a byte of a JSON text, 2 is a byte no JSON text
\* holds.
Bytes == {0, 1, 2}

\* serde_json::from_slice::<Value>(&frame[0..i]) is Ok: an empty slice is no JSON.
from_slice_is_ok(frame) == frame # <<>> /\ 2 \notin Range(frame)

\* buffer.iter().enumerate().find(|(_i, byte)| byte == &&0): 0 when there is none
\* (indices from 1).
find_nul(buf) ==
    IF 0 \in Range(buf)
    THEN CHOOSE i \in 1..Len(buf) : buf[i] = 0 /\ \A j \in 1..(i - 1) : buf[j] # 0
    ELSE 0

\* The `while let Some(i)` loop over the buffer: each frame is split off and
\* decoded; a decoded frame is try_send'ed, and Err(Full) returns from the handler;
\* a frame that does not decode is logged and the loop goes on.
RECURSIVE split_frames(_, _, _)
split_frames(buf, chan, attempts) ==
    LET i == find_nul(buf)
        frame == SubSeq(buf, 1, i - 1)
        rest == SubSeq(buf, i + 1, Len(buf))
    IN  IF i = 0
        THEN [buffer |-> buf, chan |-> chan, attempts |-> attempts, returned |-> FALSE]
        ELSE IF from_slice_is_ok(frame)
             THEN IF is_full(chan, gelf_buffer_size)
                  THEN [buffer |-> rest, chan |-> chan,
                        attempts |-> Append(attempts, frame), returned |-> TRUE]
                  ELSE split_frames(rest, Append(chan, frame), Append(attempts, frame))
             ELSE split_frames(rest, chan, Append(attempts, frame))

\* The peer writes one more byte.
PeerWrite(byte) ==
    /\ Len(stream) < MaxBytes
    /\ stream' = Append(stream, byte)
    /\ UNCHANGED <<stream_read, frame_buffer, decode_attempts, frames_chan, frames_pc>>
    /\ UNCHANGED <<collector_vars, indexer_vars, shipper_vars, filter_vars, convert_vars,
                   config_vars, not_objects, report_vars, severity_vars, path_configured,
                   pending_vars>>

\* socket.read_buf(&mut buffer) returned n of the bytes that arrived, then the
\* frame loop ran.
HandlerReadBuf(n) ==
    /\ frames_pc = "run"
    /\ n \in 1..(Len(stream) - stream_read)
    /\ LET buf == frame_buffer \o SubSeq(stream, stream_read + 1, stream_read + n)
           after == split_frames(buf, frames_chan, decode_attempts)
       IN  /\ stream_read' = stream_read + n
           /\ frame_buffer' = after.buffer
           /\ frames_chan' = after.chan
           /\ decode_attempts' = after.attempts
           /\ frames_pc' = IF after.returned THEN "done" ELSE "run"
    /\ UNCHANGED stream
    /\ UNCHANGED <<collector_vars, indexer_vars, shipper_vars, filter_vars, convert_vars,
                   config_vars, not_objects, report_vars, severity_vars, path_configured,
                   pending_vars>>

\* The forwarder takes a frame from the gelf queue.
FramesRecv ==
    /\ frames_chan # <<>>
    /\ frames_chan' = Tail(frames_chan)
    /\ UNCHANGED <<stream, stream_read, frame_buffer, decode_attempts, frames_pc>>
    /\ UNCHANGED <<collector_vars, indexer_vars, shipper_vars, filter_vars, convert_vars,
                   config_vars, not_objects, report_vars, severity_vars, path_configured,
                   pending_vars>>

NextFraming ==
    \/ \E byte \in Bytes : PeerWrite(byte)
    \/ \E n \in 1..MaxBytes : HandlerReadBuf(n)
    \/ FramesRecv

SpecFraming == Init /\ [][NextFraming]_vars

\* ------------------- shipper: the syslog input, one statement of a task at a time

\* The listener's sender.try_send(SyslogLog(message)) alone: on Ok the listener is
\* at its SYSLOG_QUEUE_COUNT.fetch_add, which it has not executed yet.
SyslogTrySend ==
    /\ spc = "run"
    /\ datagrams < MaxDatagrams
    /\ datagrams' = datagrams + 1
    /\ syslog_chan' = try_send(syslog_chan, syslog_buffer_size, SyslogRecord(datagrams + 1))
    /\ IF is_full(syslog_chan, syslog_buffer_size)
       THEN /\ SYSLOG_ERROR_COUNT' = SYSLOG_ERROR_COUNT + 1
            /\ spc' = "done"
       ELSE /\ spc' = "sent"
            /\ UNCHANGED SYSLOG_ERROR_COUNT
    /\ UNCHANGED <<SYSLOG_QUEUE_COUNT, sfpc, syslog_line, SYSLOG_PROCESSED_COUNT,
                   shipper_token, gelf_in_vars, files_in_vars,
                   grpc_out_vars, collector_vars, indexer_vars, unit_vars>>

\* The listener's SYSLOG_QUEUE_COUNT.fetch_add(1, Ordering::Relaxed).
SyslogGaugeAdd ==
    /\ spc = "sent"
    /\ SYSLOG_QUEUE_COUNT' = fetch_add(SYSLOG_QUEUE_COUNT)
    /\ spc' = "run"
    /\ UNCHANGED <<datagrams, syslog_chan, SYSLOG_ERROR_COUNT, sfpc, syslog_line,
                   SYSLOG_PROCESSED_COUNT, shipper_token, gelf_in_vars, files_in_vars,
                   grpc_out_vars, collector_vars, indexer_vars, unit_vars>>

\* The forwarder's input.recv().await alone: with a record it is at its
\* in_queue_size.fetch_sub, which it has not executed yet.
SyslogForwarderTake ==
    /\ sfpc = "recv"
    /\ IF Len(syslog_chan) > 0
       THEN /\ syslog_line' = Head(syslog_chan)
            /\ syslog_chan' = Tail(syslog_chan)
            /\ sfpc' = "taken"
       ELSE /\ syslog_chan_closed
            /\ sfpc' = "done"
            /\ UNCHANGED <<syslog_line, syslog_chan>>
    /\ UNCHANGED <<datagrams, spc, SYSLOG_ERROR_COUNT, SYSLOG_QUEUE_COUNT,
                   SYSLOG_PROCESSED_COUNT, shipper_token, gelf_in_vars,
                   files_in_vars, grpc_out_vars, collector_vars, indexer_vars, unit_vars>>

\* The forwarder's in_queue_size.fetch_sub(1) and in_processed_count.fetch_add(1).
SyslogForwarderGaugeSub ==
    /\ sfpc = "taken"
    /\ SYSLOG_QUEUE_COUNT' = fetch_sub(SYSLOG_QUEUE_COUNT)
    /\ SYSLOG_PROCESSED_COUNT' = SYSLOG_PROCESSED_COUNT + 1
    /\ sfpc' = "send"
    /\ UNCHANGED <<datagrams, spc, syslog_chan, syslog_line, SYSLOG_ERROR_COUNT,
                   shipper_token, gelf_in_vars, files_in_vars, grpc_out_vars,
                   collector_vars, indexer_vars, unit_vars>>

\* ------------------------------------------- shipper: file tailer (log_file.rs)

\* select!: lines.next_line() returned a line that the configured pattern parses:
\* sender.send(log).await, and the task ends (the select! is not in a loop).
TailerLine ==
    /\ tpc = "select"
    /\ path_configured
    /\ ~is_full(files_chan, files_buffer_size)
    /\ files_chan' = Append(files_chan, FileRecord)
    /\ tpc' = "done"
    /\ UNCHANGED <<ffpc, file_line, shipper_token, gelf_in_vars, syslog_in_vars,
                   grpc_out_vars, collector_vars, indexer_vars, unit_vars>>

\* select!: lines.next_line() returned a line that parse_config.to_log rejects
\* ("Not matching line"): the error is logged, no record is sent, and the task ends
\* as after any line.
TailerUnparsedLine ==
    /\ tpc = "select"
    /\ path_configured
    /\ tpc' = "done"
    /\ UNCHANGED <<files_chan, ffpc, file_line, shipper_token, gelf_in_vars,
                   syslog_in_vars, grpc_out_vars, collector_vars, indexer_vars, unit_vars>>

\* select!: shutdown_token.cancelled() => return.
TailerCancelled ==
    /\ tpc = "select"
    /\ shipper_token
    /\ tpc' = "done"
    /\ UNCHANGED <<files_chan, ffpc, file_line, shipper_token, gelf_in_vars,
                   syslog_in_vars, grpc_out_vars, collector_vars, indexer_vars, unit_vars>>

\* Mutant: the line read after the removal is parsed with the last known pattern
\* and sent.
TailerNotMonitored_sends ==
    /\ tpc = "select"
    /\ ~path_configured
    /\ ~is_full(files_chan, files_buffer_size)
    /\ files_chan' = Append(files_chan, FileRecord)
    /\ tpc' = "done"
    /\ UNCHANGED <<ffpc, file_line, shipper_token, gelf_in_vars, syslog_in_vars,
                   grpc_out_vars, collector_vars, indexer_vars, unit_vars>>

\* select!: lines.next_line() returned a line and files_in has no entry for the
\* path any more ("Config changed: ... is not monitored anymore!"): return.
TailerNotMonitored ==
    /\ tpc = "select"
    /\ ~path_configured
    /\ tpc' = "done"
    /\ UNCHANGED <<files_chan, ffpc, file_line, shipper_token, gelf_in_vars,
                   syslog_in_vars, grpc_out_vars, collector_vars, indexer_vars, unit_vars>>

\* A reload stored a config whose files_in lacks the path.
ReloadRemovesPath ==
    /\ path_configured
    /\ path_configured' = FALSE
    /\ UNCHANGED <<collector_vars, indexer_vars, shipper_vars, filter_vars, convert_vars,
                   config_vars, not_objects, report_vars, severity_vars, framing_vars,
                   pending_vars>>

\* The tailer's queue is closed once the tailer task, its only sender, returned.
files_chan_closed == tpc = "done"

\* forward_loop of files_in: input.recv().await.
FileForwarderRecv ==
    /\ ffpc = "recv"
    /\ IF Len(files_chan) > 0
       THEN /\ file_line' = Head(files_chan)
            /\ files_chan' = Tail(files_chan)
            /\ ffpc' = "send"
       ELSE /\ files_chan_closed
            /\ ffpc' = "done"
            /\ UNCHANGED <<file_line, files_chan>>
    /\ UNCHANGED <<tpc, shipper_token, gelf_in_vars, syslog_in_vars,
                   grpc_out_vars, collector_vars, indexer_vars, unit_vars>>

\* forward_loop of files_in: grpc_out.send(log_line).await.
FileForwarderSend ==
    /\ ffpc = "send"
    /\ ForwardSend(file_line)
    /\ ffpc' = IF gpc = "done" THEN "done" ELSE "recv"
    /\ file_line' = 0
    /\ UNCHANGED <<tpc, files_chan, shipper_token, gelf_in_vars, syslog_in_vars,
                   gpc, current_log_line, SHIPPER_PROCESSED_COUNT, SHIPPER_ERROR_COUNT,
                   taken, attempted, consumed, delivered, last_call,
                   collector_vars, indexer_vars, unit_vars>>

\* ------------------------------------------- shipper: egress sender (grpc_out.rs)

\* Status codes of client.log the send loop tells apart; Unavailable and Internal
\* stand for every code of the `_` arm.
Codes == {"Ok", "InvalidArgument", "OutOfRange", "Unavailable", "Internal"}

\* Mutant: only InvalidArgument is discarded.
is_discarded_only_invalid(code) == code = "InvalidArgument"

\* match status.code(): the InvalidArgument and OutOfRange arms log and fall through.
is_discarded(code) == code \in {"InvalidArgument", "OutOfRange"}

\* Mutant: the `_` arm falls through as well, nothing is retried.
is_retried_never(code) == FALSE

\* match status.code(): the `_` arm sleeps, puts the record back and continues.
is_retried(code) == code # "Ok" /\ ~is_discarded(code)

\* connect: endpoint.connect() succeeded.
EgressConnectOk ==
    /\ gpc = "connect"
    /\ gpc' = "top"
    /\ UNCHANGED <<grpc_chan, current_log_line, SHIPPER_QUEUE_COUNT,
                   SHIPPER_PROCESSED_COUNT, SHIPPER_ERROR_COUNT, taken, attempted,
                   consumed, delivered, last_call, shipper_token, gelf_in_vars,
                   syslog_in_vars, files_in_vars, collector_vars, indexer_vars, unit_vars>>

\* connect: endpoint.connect() failed, and after the 1s sleep the token is
\* cancelled: return None, the task returns. (A failure with the token not
\* cancelled loops and changes nothing.)
EgressConnectErr ==
    /\ gpc = "connect"
    /\ shipper_token
    /\ gpc' = "done"
    /\ UNCHANGED <<grpc_chan, current_log_line, SHIPPER_QUEUE_COUNT,
                   SHIPPER_PROCESSED_COUNT, SHIPPER_ERROR_COUNT, taken, attempted,
                   consumed, delivered, last_call, shipper_token, gelf_in_vars,
                   syslog_in_vars, files_in_vars, collector_vars, indexer_vars, unit_vars>>

\* Loop top: return when the token is cancelled; else take() current_log_line if
\* any, decrement the egress gauge and call client.log; else go to the select!.
EgressTop ==
    /\ gpc = "top"
    /\ IF shipper_token
       THEN gpc' = "done" /\ UNCHANGED <<SHIPPER_QUEUE_COUNT, attempted>>
       ELSE IF current_log_line # 0
            THEN /\ gpc' = "call"
                 /\ SHIPPER_QUEUE_COUNT' = fetch_sub(SHIPPER_QUEUE_COUNT)
                 /\ attempted' = attempted \cup {current_log_line}
            ELSE gpc' = "select" /\ UNCHANGED <<SHIPPER_QUEUE_COUNT, attempted>>
    /\ UNCHANGED <<grpc_chan, current_log_line, SHIPPER_PROCESSED_COUNT,
                   SHIPPER_ERROR_COUNT, taken, consumed, delivered, last_call,
                   shipper_token, gelf_in_vars, syslog_in_vars, files_in_vars,
                   collector_vars, indexer_vars, unit_vars>>

\* client.log(request).await returned `code`. Ok: processed counter. InvalidArgument
\* and OutOfRange: error counter, the record is dropped. Any other code: error
\* counter, sleep 1s, current_log_line = Some(log_line), continue.
EgressLog(code) ==
    /\ gpc = "call"
    /\ last_call' = [record |-> current_log_line, code |-> code]
    /\ IF code = "Ok"
       THEN /\ SHIPPER_PROCESSED_COUNT' = SHIPPER_PROCESSED_COUNT + 1
            /\ delivered' = Append(delivered, current_log_line)
            /\ UNCHANGED SHIPPER_ERROR_COUNT
       ELSE /\ SHIPPER_ERROR_COUNT < MaxErrors
            /\ SHIPPER_ERROR_COUNT' = SHIPPER_ERROR_COUNT + 1
            /\ UNCHANGED <<SHIPPER_PROCESSED_COUNT, delivered>>
    /\ IF is_retried(code)
       THEN /\ gpc' = "top"
            /\ UNCHANGED <<consumed, current_log_line>>
       ELSE /\ consumed' = consumed \cup {current_log_line}
            /\ current_log_line' = 0
            /\ gpc' = "select"
    /\ UNCHANGED <<grpc_chan, SHIPPER_QUEUE_COUNT, taken, attempted, shipper_token,
                   gelf_in_vars, syslog_in_vars, files_in_vars>>

\* client.log answered by the collector's log handler: OK.
EgressLogOk ==
    /\ EgressLog("Ok")
    /\ LogOk(current_log_line)
    /\ UNCHANGED <<next_id, log_request, input_closed, shutdown_token, bpc, bafter,
                   buffer, batch_chan, sent_batches, timer_vars, indexer_vars,
                   unit_vars>>

\* client.log answered by the collector's log handler: Unavailable.
EgressLogUnavailable ==
    /\ EgressLog("Unavailable")
    /\ LogUnavailable(current_log_line)
    /\ UNCHANGED <<next_id, log_request, input_closed, shutdown_token, bpc, bafter,
                   buffer, batch_chan, sent_batches, timer_vars, indexer_vars,
                   unit_vars>>

\* client.log answered `code` by a collector of which nothing else is known
\* (unreachable, shutting down, or rejecting the record).
EgressAnswer(code) ==
    /\ EgressLog(code)
    /\ UNCHANGED <<collector_vars, indexer_vars, unit_vars>>

\* metrics::to_grpc_metrics: three maps from a queue name to the counter loaded
\* for it.
to_grpc_metrics ==
    [queue_count |-> [name \in {"glef_in", "syslog_in", "grpc_out"} |->
                        CASE name = "glef_in" -> GELF_QUEUE_COUNT
                          [] name = "syslog_in" -> SYSLOG_QUEUE_COUNT
                          [] name = "grpc_out" -> SHIPPER_QUEUE_COUNT],
     processed_count |-> [name \in {"glef_in", "syslog_in", "grpc_out"} |->
                        CASE name = "glef_in" -> GELF_PROCESSED_COUNT
                          [] name = "syslog_in" -> SYSLOG_PROCESSED_COUNT
                          [] name = "grpc_out" -> SHIPPER_PROCESSED_COUNT],
     error_count |-> [name \in {"glef_in", "syslog_in", "grpc_out"} |->
                        CASE name = "glef_in" -> GELF_ERROR_COUNT
                          [] name = "syslog_in" -> SYSLOG_ERROR_COUNT
                          [] name = "grpc_out" -> SHIPPER_ERROR_COUNT]]

\* select!: metrics_report_interval.next(): report the metrics and loop.
EgressMetrics ==
    /\ gpc = "select"
    /\ gpc' = "top"
    /\ UNCHANGED <<grpc_chan, current_log_line, SHIPPER_QUEUE_COUNT,
                   SHIPPER_PROCESSED_COUNT, SHIPPER_ERROR_COUNT, taken, attempted,
                   consumed, delivered, last_call, shipper_token, gelf_in_vars,
                   syslog_in_vars, files_in_vars, collector_vars, indexer_vars, unit_vars>>

\* select!: receiver.recv(): Some(log_line) becomes current_log_line, None breaks.
EgressRecv ==
    /\ gpc = "select"
    /\ IF Len(grpc_chan) > 0
       THEN /\ current_log_line' = Head(grpc_chan)
            /\ grpc_chan' = Tail(grpc_chan)
            /\ taken' = Append(taken, Head(grpc_chan))
            /\ gpc' = "top"
       ELSE /\ grpc_chan_closed
            /\ gpc' = "done"
            /\ UNCHANGED <<current_log_line, grpc_chan, taken>>
    /\ UNCHANGED <<SHIPPER_QUEUE_COUNT, SHIPPER_PROCESSED_COUNT, SHIPPER_ERROR_COUNT,
                   attempted, consumed, delivered, last_call, shipper_token,
                   gelf_in_vars, syslog_in_vars, files_in_vars,
                   collector_vars, indexer_vars, unit_vars>>

\* ShipperServer::shutdown returned: the token is cancelled and join! saw the
\* three forwarders and the egress sender finish.
shipper_shutdown_returned ==
    /\ shipper_token
    /\ fpc = "done" /\ sfpc = "done" /\ ffpc = "done"
    /\ gpc = "done"

\* CollectorServer::shutdown returned: join!(indexer_handle) completed.
collector_shutdown_returned == shutdown_token /\ ipc = "done"

\* The shipper's tasks in the many_shippers test: one GELF client writing whole
\* frames, no syslog datagram, no line appended to the tailed file, and a
\* collector that is reachable and answers every log call.
ShipperReachableCollector ==
    \/ ClientWrite
    \/ ClientClose
    \/ ShipperShutdown
    \/ ListenerCancelled
    \/ HandlerRead
    \/ HandlerEof
    \/ HandlerCancelled
    \/ ForwarderRecv
    \/ ForwarderSend
    \/ SyslogCancelled
    \/ SyslogForwarderRecv
    \/ TailerCancelled
    \/ FileForwarderRecv
    \/ EgressConnectOk
    \/ EgressTop
    \/ EgressLogOk
    \/ EgressMetrics
    \/ EgressRecv

\* The owner of the Sender that launch_batch_collector returned drops it and every
\* clone of it (in the collector: the task serving the log RPC returns), which
\* closes the ingest queue; what it holds can still be received.
SendersDropped ==
    /\ ~input_closed
    /\ input_closed' = TRUE
    /\ UNCHANGED <<next_id, input_chan, log_results, shutdown_token, bpc, bafter, buffer,
                   batch_chan, sent_batches, timer_vars, indexer_vars, shipper_vars,
                   unit_vars>>

\* The collector whose log RPC task returns without a shutdown: calls are served
\* until then, the batcher and the indexer run on in front of a quickwit that answers 200.
\* With the token not cancelled and the queue closed and empty, the batcher's
\* `Ok(log_line) = receiver.recv()` branch does not match and its select! waits for
\* max_wait.
NextSendersDropped ==
    \/ (~input_closed /\ Log)
    \/ SendersDropped
    \/ BatcherMaxWait /\ UNCHANGED timer_vars
    \/ BatcherRecv /\ UNCHANGED timer_vars
    \/ BatcherSend /\ UNCHANGED timer_vars
    \/ IndexerPop
    \/ IndexerResponse(OK)
    \/ IndexerCheck
    \/ IndexerRecv

\* The two tasks are scheduled whenever they can take a step; the answer to a POST
\* arrives.
SpecSendersDropped ==
    /\ Init /\ [][NextSendersDropped]_vars
    /\ WF_vars(BatcherMaxWait /\ UNCHANGED timer_vars)
    /\ WF_vars(BatcherRecv /\ UNCHANGED timer_vars)
    /\ WF_vars(BatcherSend /\ UNCHANGED timer_vars)
    /\ WF_vars(IndexerPop) /\ WF_vars(IndexerResponse(OK))
    /\ WF_vars(IndexerCheck) /\ WF_vars(IndexerRecv)

\* The end-to-end pipeline of the many_shippers test: a shipper fed by a GELF
\* client, a reachable collector that is shut down after the shipper's shutdown
\* returned, and a quickwit that answers 200.
IndexerQuickwitOk ==
    \/ IndexerPop
    \/ IndexerResponse(OK)
    \/ IndexerCheck
    \/ IndexerRecv

NextPipeline ==
    \/ ShipperReachableCollector
    \/ (shipper_shutdown_returned /\ Shutdown)
    \/ Batcher
    \/ IndexerQuickwitOk

SpecPipeline == Init /\ [][NextPipeline]_vars

\* The shipper's egress path in front of a collector of which only the answers
\* are known: it may be unreachable, and answers any code. One GELF client feeds it.
NextEgress ==
    \/ ClientWrite
    \/ ClientClose
    \/ ShipperShutdown
    \/ ListenerCancelled
    \/ HandlerRead
    \/ HandlerEof
    \/ HandlerCancelled
    \/ ForwarderRecv
    \/ ForwarderSend
    \/ EgressConnectOk
    \/ EgressConnectErr
    \/ EgressTop
    \/ \E code \in Codes : EgressAnswer(code)
    \/ EgressMetrics
    \/ EgressRecv

SpecEgress == Init /\ [][NextEgress]_vars

\* The GELF forwarder between a client that also sends JSON which is no GELF log and
\* an egress sender whose calls are answered OK or Unavailable; the shipper may be
\* shut down, which ends the handler, the forwarder and the egress sender in any
\* order.
NextForward ==
    \/ ClientWrite \/ ClientWriteNotObject \/ ClientClose
    \/ ShipperShutdown \/ ListenerCancelled
    \/ HandlerRead \/ HandlerEof \/ HandlerCancelled
    \/ ForwarderRecv \/ ForwarderSend
    \/ EgressConnectOk \/ EgressConnectErr \/ EgressTop
    \/ EgressAnswer("Ok") \/ EgressAnswer("Unavailable")
    \/ EgressRecv

SpecForward == Init /\ [][NextForward]_vars

\* ------------------------------- shipper: syslog exclusion filters (mod filters)

\* What the filters look at in a parsed message. appname and facility are
\* Options, msg is always there.
AppNames == {"my-ultimate-app.sh", "postfix"}
Facilities == {"audit", "mail"}
Msgs == {"natty line", "plain line"}
Messages == [appname : Opt(AppNames), facility : Opt(Facilities), msg : Msgs]

\* A regex is modelled by the values it matches, here one value of the field.
Patterns(values) == {{v} : v \in values}
is_match(pattern, value) == value \in pattern

\* SyslogExclusionFilter: three optional patterns.
Filters == [appname : Opt(Patterns(AppNames)), facility : Opt(Patterns(Facilities)),
            message : Opt(Patterns(Msgs))]

\* Mutant: the patterns of a filter are combined with `or`.
shall_exclude_or(exclusion_filter, m) ==
    \/ /\ exclusion_filter.appname # None /\ m.appname # None
       /\ is_match(exclusion_filter.appname[1], m.appname[1])
    \/ /\ exclusion_filter.facility # None /\ m.facility # None
       /\ is_match(exclusion_filter.facility[1], m.facility[1])
    \/ /\ exclusion_filter.message # None
       /\ is_match(exclusion_filter.message[1], m.msg)

\* Mutant: a filter none of whose fields applies excludes the message.
shall_exclude_unwrap_or_true(exclusion_filter, m) ==
    /\ (exclusion_filter.appname # None /\ m.appname # None)
          => is_match(exclusion_filter.appname[1], m.appname[1])
    /\ (exclusion_filter.facility # None /\ m.facility # None)
          => is_match(exclusion_filter.facility[1], m.facility[1])
    /\ exclusion_filter.message # None
          => is_match(exclusion_filter.message[1], m.msg)

\* The body of the for loop of is_excluded: shall_exclude starts as None, each
\* applicable field sets it or `and`s into it, and the body returns
\* shall_exclude.unwrap_or(false).
shall_exclude(exclusion_filter, m) ==
    LET and_then_or_else(previous, matched) ==
            IF previous # None THEN Some(previous[1] /\ matched) ELSE Some(matched)
        after_appname ==
            IF exclusion_filter.appname # None /\ m.appname # None
            THEN Some(is_match(exclusion_filter.appname[1], m.appname[1]))
            ELSE None
        after_facility ==
            IF exclusion_filter.facility # None /\ m.facility # None
            THEN and_then_or_else(after_appname,
                                  is_match(exclusion_filter.facility[1], m.facility[1]))
            ELSE after_appname
        after_message ==
            IF exclusion_filter.message # None
            THEN and_then_or_else(after_facility,
                                  is_match(exclusion_filter.message[1], m.msg))
            ELSE after_facility
    IN  IF after_message # None THEN after_message[1] ELSE FALSE

\* Mutant: the loop goes on to the next filter when one does not exclude.
is_excluded_any_filter(filters, m) ==
    \E i \in 1..Len(filters) : shall_exclude(filters[i], m)

\* filters::is_excluded: the loop body returns in its first iteration.
is_excluded(filters, m) ==
    IF Len(filters) > 0 THEN shall_exclude(filters[1], m) ELSE FALSE

\* Any loaded snapshot (without syslog_in: the empty list) and any parsed message.
FilterInputs ==
    /\ exclusion_filters \in UNION {[1..n -> Filters] : n \in 0..MaxFilters}
    /\ message \in Messages
    /\ excluded = None

\* The listener asks is_excluded about the message it parsed.
SyslogIsExcluded ==
    /\ excluded = None
    /\ excluded' = Some(is_excluded(exclusion_filters, message))
    /\ UNCHANGED <<exclusion_filters, message, collector_vars, indexer_vars,
                   shipper_vars, convert_vars, config_vars, extra_vars>>

NextFilters == SyslogIsExcluded

InitWithFilters == InitTasks /\ FilterInputs /\ InitConvert /\ InitConfig /\ InitExtra

SpecFilters == InitWithFilters /\ [][NextFilters]_vars

\* ------------------------------------ collector: severity of an IndexLogEntry

\* enum SyslogSeverity of the protocol.
SyslogSeverity ==
    {"Emergency", "Alert", "Critical", "Error", "Warning", "Notice", "Info", "Debug"}

\* enum OTELSeverity: a variant is its discriminant, 0 is UNSPECIFIED and TRACE..FATAL4
\* are 1..24; Display prints the variant's name.
OTELSeverityNames ==
    <<"TRACE", "TRACE2", "TRACE3", "TRACE4", "DEBUG", "DEBUG2", "DEBUG3", "DEBUG4",
      "INFO", "INFO2", "INFO3", "INFO4", "WARN", "WARN2", "WARN3", "WARN4",
      "ERROR", "ERROR2", "ERROR3", "ERROR4", "FATAL", "FATAL2", "FATAL3", "FATAL4">>
OTELSeverity(name) ==
    IF name = "UNSPECIFIED" THEN 0
    ELSE CHOOSE n \in 1..Len(OTELSeverityNames) : OTELSeverityNames[n] = name
to_string(severity) ==
    IF severity = 0 THEN "UNSPECIFIED" ELSE OTELSeverityNames[severity]

\* Mutant: Notice is mapped to INFO.
OTELSeverity_from_notice_as_info(s) ==
    CASE s = "Emergency" -> OTELSeverity("FATAL4")
      [] s = "Alert" -> OTELSeverity("FATAL3")
      [] s = "Critical" -> OTELSeverity("FATAL")
      [] s = "Error" -> OTELSeverity("ERROR")
      [] s = "Warning" -> OTELSeverity("WARN")
      [] s = "Notice" -> OTELSeverity("INFO")
      [] s = "Info" -> OTELSeverity("INFO")
      [] s = "Debug" -> OTELSeverity("DEBUG")

\* impl From<SyslogSeverity> for OTELSeverity.
OTELSeverity_from(s) ==
    CASE s = "Emergency" -> OTELSeverity("FATAL4")
      [] s = "Alert" -> OTELSeverity("FATAL3")
      [] s = "Critical" -> OTELSeverity("FATAL")
      [] s = "Error" -> OTELSeverity("ERROR")
      [] s = "Warning" -> OTELSeverity("WARN")
      [] s = "Notice" -> OTELSeverity("INFO3")
      [] s = "Info" -> OTELSeverity("INFO")
      [] s = "Debug" -> OTELSeverity("DEBUG")

\* LogLines with the severity of their line.
SeverityLogLines ==
    [timestamp : BOOLEAN, line : {"none", "gelf", "syslog", "generic"},
     extra_is_object : BOOLEAN, severity : SyslogSeverity]

\* IndexLogEntry::try_from(value): Err when a mandatory field is missing or `extra`
\* is no JSON object; otherwise each of the three arms takes the severity of its
\* line through OTELSeverity::from, to_string() and `as u8`.
try_from(v) ==
    IF ~try_from_ok(v)
    THEN [is_ok |-> FALSE]
    ELSE LET severity == OTELSeverity_from(v.severity)
         IN  [is_ok |-> TRUE,
              severity_text |-> to_string(severity),
              severity_number |-> severity,
              log_system |-> v.line]

\* Any LogLine.
ConvertInputs ==
    /\ try_from_value \in SeverityLogLines
    /\ index_log_entry = None

\* The log RPC converts the LogLine it received.
IndexLogEntryTryFrom ==
    /\ index_log_entry = None
    /\ index_log_entry' = Some(try_from(try_from_value))
    /\ UNCHANGED <<try_from_value, collector_vars, indexer_vars, shipper_vars,
                   filter_vars, config_vars, extra_vars>>

NextConvert == IndexLogEntryTryFrom

InitWithLogLines ==
    InitTasks /\ InitFilters /\ ConvertInputs /\ InitConfig /\ InitExtra

SpecConvert == InitWithLogLines /\ [][NextConvert]_vars

\* ------------------------------------------- severity of a numeric GELF level

\* The largest low word of a level, and the largest numeric severity, tried.
MaxSeverityValue == 9

\* enum SyslogSeverity by discriminant: Emergency is 0, Debug is 7.
SyslogSeverityByValue ==
    <<"Emergency", "Alert", "Critical", "Error", "Warning", "Notice", "Info", "Debug">>

\* impl From<u64> for SyslogSeverity: 0..7 by value, `_ => Self::Debug`.
SyslogSeverity_from(value) ==
    IF value \in 0..7 THEN SyslogSeverityByValue[value + 1] ELSE "Debug"

\* An i64 is written hi * 2^32 + lo with lo a signed 32-bit word; `v as i32`
\* keeps the low word.
i64_levels == [hi : -1..1, lo : -1..MaxSeverityValue]
as_i32(v) == v.lo
InRange0to7(v) == v.hi = 0 /\ v.lo \in 0..7

\* TryFrom<GelfLog> for LogLine, the severity:
\* level.as_i64().map(|v| v as i32).unwrap_or(1).
GelfLogLine_severity_of(json_level) ==
    IF json_level = None THEN 1 ELSE as_i32(json_level[1])

\* GelfLogLine::severity(), the getter of the generated protocol module: the
\* variant of the stored number, Debug for a number that is no variant.
GelfLogLine_severity(stored) ==
    IF stored \in 0..7 THEN SyslogSeverityByValue[stored + 1] ELSE "Debug"

\* Any level a GELF client may send and any numeric severity.
SeverityInputs ==
    /\ level \in Opt(i64_levels)
    /\ u64_value \in 0..MaxSeverityValue
    /\ syslog_severity = None
    /\ gelf_severity = None
    /\ gelf_severity_text = None

\* SyslogSeverity::from(u64_value).
SyslogSeverityFrom ==
    /\ syslog_severity = None
    /\ syslog_severity' = Some(SyslogSeverity_from(u64_value))
    /\ UNCHANGED <<level, u64_value, gelf_severity, gelf_severity_text>>
    /\ UNCHANGED <<collector_vars, indexer_vars, shipper_vars, filter_vars, convert_vars,
                   config_vars, not_objects, report_vars, later_vars>>

\* The shipper builds the GelfLogLine of a GELF object.
GelfLogLineTryFrom ==
    /\ gelf_severity = None
    /\ gelf_severity' = Some(GelfLogLine_severity_of(level))
    /\ UNCHANGED <<level, u64_value, syslog_severity, gelf_severity_text>>
    /\ UNCHANGED <<collector_vars, indexer_vars, shipper_vars, filter_vars, convert_vars,
                   config_vars, not_objects, report_vars, later_vars>>

\* The collector converts it: the Gelf arm of IndexLogEntry::try_from,
\* OTELSeverity::from(gelf.severity()).to_string().
IndexGelfLogLine ==
    /\ gelf_severity # None
    /\ gelf_severity_text = None
    /\ gelf_severity_text' =
           Some(to_string(OTELSeverity_from(GelfLogLine_severity(gelf_severity[1]))))
    /\ UNCHANGED <<level, u64_value, syslog_severity, gelf_severity>>
    /\ UNCHANGED <<collector_vars, indexer_vars, shipper_vars, filter_vars, convert_vars,
                   config_vars, not_objects, report_vars, later_vars>>

NextSeverity == SyslogSeverityFrom \/ GelfLogLineTryFrom \/ IndexGelfLogLine

InitWithLevels ==
    InitTasks /\ InitFilters /\ InitConvert /\ InitConfig /\ InitReport /\ SeverityInputs
    /\ InitLater

SpecSeverity == InitWithLevels /\ [][NextSeverity]_vars

\* ---------------------------------------------------------------------------
\* collector: report_metrics (grpc_server.rs), for the counters of one
\* (hostname, queue name) label pair.

\* The largest count a shipper reports.
MaxCount == 4

\* IntCounter::inc_by and IntCounter::reset.
inc_by(counter, v) == counter + v

\* Mutant: reset leaves the counter as it is.
reset_keeps(counter) == counter

reset(counter) == 0

\* The body of the loops over processed_count and error_count: raise the counter
\* to a higher count, otherwise reset it and raise it from zero.
set_counter(current, count) ==
    IF count > current
    THEN inc_by(current, count - current)
    ELSE inc_by(reset(current), count)

\* report_metrics: the gauge is set, both counters follow the report, Ok(()).
ReportMetrics(request) ==
    /\ metrics' = Some(request)
    /\ collector_queue_gauge' = request.queue_count
    /\ collector_processed_counter' =
           set_counter(collector_processed_counter, request.processed_count)
    /\ collector_error_counter' = set_counter(collector_error_counter, request.error_count)
    /\ report_metrics_response' = "Ok"
    /\ UNCHANGED <<collector_vars, indexer_vars, shipper_vars, filter_vars, convert_vars,
                   config_vars, not_objects, more_vars>>

\* A shipper reports again and again; its counts go up, or start over after a
\* restart.
NextReport ==
    \E request \in [queue_count : 0..MaxCount, processed_count : 0..MaxCount,
                    error_count : 0..MaxCount] : ReportMetrics(request)

SpecReport == Init /\ [][NextReport]_vars

\* ---------------------------------------------------------------------------
\* common: the config store and its watchers (rlog-common config.rs, config/dir.rs)
\* over the TestConfig of config/dir.rs: a map from key to string.

\* File writes the environment makes while a watcher runs.
MaxWrites == 1

\* The path given to setup_config_from_file: 01.yml.
path == CHOOSE file \in Files : FileNames[file].name = "01.yml"

\* The fragments of the test of config/dir.rs.
Fragments ==
    {"first" :> "foo" @@ "multiple" :> "let's",
     "second" :> "foobar" @@ "multiple" :> "let's go!",
     "first-plop" :> "foobar"}

\* What a file can hold: YAML of a TestConfig, bytes that are no such YAML, or
\* anything at all behind permissions that forbid reading it.
FileContents ==
    {[kind |-> "unreadable", config |-> TestConfig_default],
     [kind |-> "invalid", config |-> TestConfig_default]}
    \cup {[kind |-> "yaml", config |-> config] : config \in Fragments}

\* impl Extend<TestConfig>: HashMap::extend, the entries of c replace those of self.
extend(self, c) ==
    [key \in DOMAIN self \cup DOMAIN c |-> IF key \in DOMAIN c THEN c[key] ELSE self[key]]

\* MUTANT of load_config: a file that cannot be opened or parsed loads as the default.
load_config_broken_as_default(dir, file) ==
    IF dir[file] = None \/ dir[file][1].kind # "yaml"
    THEN [is_ok |-> TRUE, config |-> TestConfig_default]
    ELSE [is_ok |-> TRUE, config |-> dir[file][1].config]

\* load_config: File::open(path)?, then serde_yaml::from_reader(file)?.
load_config(dir, file) ==
    IF dir[file] = None \/ dir[file][1].kind = "unreadable"
    THEN [is_ok |-> FALSE, config |-> TestConfig_default]
    ELSE IF dir[file][1].kind = "invalid"
         THEN [is_ok |-> FALSE, config |-> TestConfig_default]
         ELSE [is_ok |-> TRUE, config |-> dir[file][1].config]

\* MUTANT of glob_matches: the leading dot of a file name matches the `*`.
glob_matches_leading_dot(file) == FileNames[file].extension = "yml"

\* glob_with("<directory>/*.yml", require_literal_leading_dot: true): whether the
\* pattern matches the name of the file.
glob_matches(file) == FileNames[file].extension = "yml" /\ ~FileNames[file].leading_dot

\* read_config: the loop over the paths of the glob, from `file` on.
RECURSIVE read_config_from(_, _, _)
read_config_from(dir, file, root_config) ==
    IF file > Len(FileNames)
    THEN [is_ok |-> TRUE, config |-> root_config]
    ELSE IF dir[file] = None \/ ~glob_matches(file)
         THEN read_config_from(dir, file + 1, root_config)
         ELSE LET loaded == load_config(dir, file)
              IN  IF loaded.is_ok
                  THEN read_config_from(dir, file + 1, extend(root_config, loaded.config))
                  ELSE [is_ok |-> FALSE, config |-> TestConfig_default]

\* read_config: the default extended with every file of the glob, or the first error.
read_config(dir) == read_config_from(dir, 1, TestConfig_default)

\* The time of the last write in the directory.
clock == CHOOSE t \in Range(modified) : \A u \in Range(modified) : u <= t

\* Any directory before a config is set up.
ConfigInputs ==
    /\ directory \in [Files -> Opt(FileContents)]
    /\ modified = [file \in Files |-> 0]
    /\ last_modified = 0
    /\ config_store = TestConfig_default
    /\ notifications = 0
    /\ config_watcher = "none"
    /\ watcher_log = "none"

\* setup_config_from_file: load_and_swap_config(path)?, then spawn the watcher.
SetupConfigFromFile ==
    /\ config_watcher = "none"
    /\ LET loaded == load_config(directory, path)
       IN  IF loaded.is_ok
           THEN /\ config_store' = loaded.config
                /\ last_modified' = modified[path]
                /\ config_watcher' = "file"
           ELSE /\ config_watcher' = "failed"
                /\ UNCHANGED <<config_store, last_modified>>
    /\ UNCHANGED <<directory, modified, notifications, watcher_log, collector_vars,
                   indexer_vars, shipper_vars, filter_vars, convert_vars,
                   extra_vars>>

\* setup_config_from_dir: read_config(&glob)?, swap, then spawn the watcher.
SetupConfigFromDir ==
    /\ config_watcher = "none"
    /\ LET initial_config == read_config(directory)
       IN  IF initial_config.is_ok
           THEN /\ config_store' = initial_config.config
                /\ config_watcher' = "dir"
           ELSE /\ config_watcher' = "failed"
                /\ UNCHANGED config_store
    /\ UNCHANGED <<directory, modified, last_modified, notifications, watcher_log,
                   collector_vars, indexer_vars, shipper_vars, filter_vars, convert_vars,
                   extra_vars>>

\* The environment creates, rewrites or removes a file while a watcher runs.
WriteFile(file, content) ==
    /\ config_watcher \in {"file", "dir"}
    /\ clock < MaxWrites
    /\ directory' = [directory EXCEPT ![file] = content]
    /\ modified' = [modified EXCEPT ![file] = clock + 1]
    /\ UNCHANGED <<last_modified, config_store, notifications, config_watcher,
                   watcher_log, collector_vars, indexer_vars, shipper_vars,
                   filter_vars, convert_vars, extra_vars>>

\* One iteration of the file watcher's loop after its sleep; send_ok is whether a
\* receiver of the watch channel is still alive.
FileWatcherReload(send_ok) ==
    /\ config_watcher = "file"
    /\ IF directory[path] # None /\ modified[path] # last_modified
       THEN LET loaded == load_config(directory, path)
            IN  IF loaded.is_ok
                THEN /\ config_store' = loaded.config
                     /\ last_modified' = modified[path]
                     /\ watcher_log' = "New config"
                     /\ IF send_ok
                        THEN notifications' = notifications + 1 /\ UNCHANGED config_watcher
                        ELSE config_watcher' = "returned" /\ UNCHANGED notifications
                ELSE /\ watcher_log' = "Unable to reload config"
                     /\ UNCHANGED <<config_store, last_modified, notifications,
                                    config_watcher>>
       ELSE UNCHANGED <<config_store, last_modified, notifications, config_watcher,
                        watcher_log>>
    /\ UNCHANGED <<directory, modified, collector_vars, indexer_vars, shipper_vars,
                   filter_vars, convert_vars, extra_vars>>

\* One iteration of the directory watcher's loop after its sleep.
DirWatcherReload(send_ok) ==
    /\ config_watcher = "dir"
    /\ LET new_config == read_config(directory)
       IN  IF new_config.is_ok
           THEN IF new_config.config # config_store
                THEN /\ config_store' = new_config.config
                     /\ watcher_log' = "Refreshed configuration"
                     /\ IF send_ok
                        THEN notifications' = notifications + 1 /\ UNCHANGED config_watcher
                        ELSE config_watcher' = "returned" /\ UNCHANGED notifications
                ELSE UNCHANGED <<config_store, notifications, config_watcher, watcher_log>>
           ELSE /\ watcher_log' = "Unable to read configuration"
                /\ UNCHANGED <<config_store, notifications, config_watcher>>
    /\ UNCHANGED <<directory, modified, last_modified, collector_vars, indexer_vars,
                   shipper_vars, filter_vars, convert_vars, extra_vars>>

NextConfig ==
    \/ SetupConfigFromFile
    \/ SetupConfigFromDir
    \/ \E file \in Files, content \in Opt(FileContents) : WriteFile(file, content)
    \/ \E send_ok \in BOOLEAN : FileWatcherReload(send_ok)
    \/ \E send_ok \in BOOLEAN : DirWatcherReload(send_ok)

InitWithDirectory ==
    InitTasks /\ InitFilters /\ InitConvert /\ ConfigInputs /\ InitExtra

SpecConfig == InitWithDirectory /\ [][NextConfig]_vars

\* ------------------------------------------------------------ definitions

IsSorted(s) == \A i, j \in 1..Len(s) : i < j => s[i] < s[j]
NoDuplicates(s) == \A i, j \in 1..Len(s) : i # j => s[i] # s[j]
FirstHalf(s) == SubSeq(s, 1, Len(s) \div 2)
SecondHalf(s) == SubSeq(s, Len(s) \div 2 + 1, Len(s))

\* Records the Batch state holds, and all the indexer holds.
Pending(self) == Range(self.to_send) \cup Range(self.remaining)
IndexerHeld == Range(batch) \cup Pending(batch_to_send)

\* The indexer step that handles the answer `statuses` to the POST of `batch`.
Answered(statuses) == ipc = "post" /\ ipc' # "post" /\ last_post'.status \in statuses
\* The indexer step that starts the POST following an answer in `statuses`.
PostsAfter(statuses) == ipc = "top" /\ ipc' = "post" /\ last_post.status \in statuses

\* ------------------------------------------------------------------ claims

\* Records in the batch queue.
RECURSIVE Flatten(_)
Flatten(batches) ==
    IF batches = <<>> THEN <<>> ELSE Head(batches) \o Flatten(Tail(batches))

\* Where an accepted record can be on its way to quickwit.
InCollector ==
    Range(input_chan) \cup Range(buffer) \cup Range(Flatten(batch_chan)) \cup IndexerHeld

\* C1 (as stated): once the shipper's shutdown() and then the collector's
\* shutdown() have returned, quickwit holds exactly one document per GELF record
\* sent to the shipper before its shutdown() was called. Stated for the runs in
\* which the connection handler read every frame the client wrote and dropped
\* none on a full gelf queue.
C1_EveryRecordDeliveredOnce ==
    (/\ shipper_shutdown_returned
     /\ collector_shutdown_returned
     /\ socket = <<>>
     /\ GELF_ERROR_COUNT = 0)
        => (Len(received) = written /\ Range(received) = 1..written)

\* C2 (as stated): once the indexer has exited, with quickwit having answered 200
\* to its last POST, every record whose log call returned OK is among the
\* documents quickwit accepted with 200.
C2_AcceptedRecordsIndexed ==
    (ipc = "done" /\ last_post.status = OK) => log_ok \subseteq Range(received)

\* C2 (as amended): a record whose log call returned OK is, at any time, in exactly
\* one of the collector's queues and buffers, among quickwit's documents, or among
\* the single records discarded after 400 payload-too-large; once the indexer has
\* exited it is indexed or was discarded so; and with a quickwit that eventually
\* answers 200 it does get indexed or discarded, whenever the shutdown token fires.
C2_AcceptedRecordsIndexedOrDiscarded ==
    /\ [](log_ok = InCollector \cup Range(received) \cup discarded)
    /\ [](Cardinality(log_ok) =
            Len(input_chan) + Len(buffer) + Len(Flatten(batch_chan)) + Len(batch)
            + Len(batch_to_send.to_send) + Len(batch_to_send.remaining)
            + Len(received) + Cardinality(discarded))
    /\ [](ipc = "done" => InCollector = {})
    /\ (InCollector # {}) ~> (InCollector = {})

\* C2 witness: the token fired with accepted records in the ingest queue and in the
\* buffer, and the indexer exited after quickwit accepted every one of them.
C2_Witness ==
    /\ ipc = "done"
    /\ Len(sent_batches) > 0
    /\ Len(sent_batches[Len(sent_batches)]) > max_batch_size
    /\ Cardinality(log_ok) = MaxRecords
    /\ Len(received) = MaxRecords
    /\ last_post.previous # OK

\* C3: the indexer calls recv on the batch queue only when its Batch state is
\* None: no to_send or remaining fragment, and no batch in flight, is pending.
C3_RecvOnlyWhenNone ==
    ipc = "recv" => (batch_to_send = BatchNone /\ batch = <<>>)

\* C3 witness: the indexer is back at recv after it delivered a batch in pieces.
C3_Witness ==
    /\ ipc = "recv"
    /\ last_post.status = OK
    /\ Len(sent_batches) = 1
    /\ Len(last_post.body) < Len(sent_batches[1])
    /\ Len(received) = Len(sent_batches[1])

\* C4: whatever quickwit answers, split_because_of_err is never called while the
\* Batch state is Splitted: its panic branch is unreachable.
C4_SplitNeverPanics ==
    /\ ipc # "panicked"
    /\ (ipc = "post" => batch_to_send.tag # "Splitted")

\* C4 witness: a fragment of two or more records was split again while a remainder
\* was pending.
C4_Witness ==
    /\ ipc = "top"
    /\ last_post.status = PAYLOAD_TOO_LARGE
    /\ Len(last_post.body) >= 2
    /\ batch_to_send.tag = "Splitted"
    /\ Len(batch_to_send.remaining) > Len(SecondHalf(last_post.body))

\* C5 (as amended): a POST of b, |b| >= 2, answered 400 payload-too-large leaves
\* to_send = the first floor(|b|/2) records of b and remaining = the other records
\* of b followed by the records that were pending; the next POST is exactly that
\* first half; nothing of b is lost or duplicated.
C5_SplitFirstHalfThenRest ==
    /\ [][(Answered({PAYLOAD_TOO_LARGE}) /\ Len(batch) >= 2) =>
            /\ batch_to_send' = Splitted(FirstHalf(batch),
                                         SecondHalf(batch) \o batch_to_send.remaining)
            /\ batch_to_send'.to_send \o batch_to_send'.remaining
                 = batch \o batch_to_send.remaining
            /\ Len(batch_to_send'.to_send) = Len(batch) \div 2
            /\ discarded' = discarded]_vars
    /\ [][(PostsAfter({PAYLOAD_TOO_LARGE}) /\ Len(last_post.body) >= 2) =>
            /\ batch' = FirstHalf(last_post.body)
            /\ batch_to_send' = Single(batch_to_send.remaining)]_vars

\* C5 witness: the first half of a split batch is being POSTed while the second
\* half waits in front of records that were already pending.
C5_Witness ==
    /\ ipc = "post"
    /\ last_post.status = PAYLOAD_TOO_LARGE
    /\ Len(last_post.body) >= 2
    /\ batch = FirstHalf(last_post.body)
    /\ batch_to_send.tag = "Single"
    /\ Len(batch_to_send.remaining) > Len(SecondHalf(last_post.body))

\* C5 (as stated): the other records of b are appended to the pending remainder.
C5_SecondHalfAppended ==
    [][(Answered({PAYLOAD_TOO_LARGE}) /\ Len(batch) >= 2) =>
          /\ batch_to_send'.to_send = FirstHalf(batch)
          /\ batch_to_send'.remaining
               = batch_to_send.remaining \o SecondHalf(batch)]_vars

\* C6: a POST of at most one record answered 400 payload-too-large discards the
\* record, which is never POSTed again; the indexer goes on with the pending
\* remainder; and when quickwit rejects only oversized payloads (every answer is
\* 200 or 400 payload-too-large) the indexer gets rid of all it holds after
\* finitely many POSTs.
C6_OversizedSingleDiscarded ==
    /\ [][(Answered({PAYLOAD_TOO_LARGE}) /\ Len(batch) <= 1) =>
            /\ batch_to_send' = batch_to_send
            /\ discarded' = discarded \cup Range(batch)
            /\ received' = received
            /\ ipc' = "top"]_vars
    /\ [][(PostsAfter({PAYLOAD_TOO_LARGE}) /\ Len(last_post.body) <= 1) =>
            batch' = batch_to_send.remaining]_vars
    /\ [](discarded \cap (IndexerHeld \cup Range(received)) = {})
    /\ ((IndexerHeld # {}) ~> (IndexerHeld = {}))

\* C6 witness: a single oversized record was discarded and the indexer is POSTing
\* the remainder that was pending.
C6_Witness ==
    /\ ipc = "post"
    /\ last_post.status = PAYLOAD_TOO_LARGE
    /\ Len(last_post.body) = 1
    /\ Range(last_post.body) \subseteq discarded
    /\ Len(batch) >= 2

\* C7: a POST of b answered 429 keeps every record of b, which the next POST
\* carries again; a record quickwit accepted with 200 is never POSTed again, so
\* each document lands at most once.
C7_RetryAfter429 ==
    /\ [][Answered({TOO_MANY_REQUESTS}) =>
            /\ Range(batch) \subseteq Range(batch_to_send'.remaining)
            /\ Pending(batch_to_send) \subseteq Pending(batch_to_send')
            /\ received' = received /\ discarded' = discarded]_vars
    /\ [][PostsAfter({TOO_MANY_REQUESTS}) =>
            Range(last_post.body) \subseteq Range(batch')]_vars
    /\ [](IndexerHeld \cap Range(received) = {})
    /\ [](NoDuplicates(received))

\* C7 witness: a batch answered 429 was POSTed again, answered 200, and quickwit
\* holds each of its documents once.
C7_Witness ==
    /\ last_post.previous = TOO_MANY_REQUESTS
    /\ last_post.status = OK
    /\ Len(last_post.body) >= 2
    /\ \E i \in 1..Len(sent_batches) : last_post.body = sent_batches[i]
    /\ received = last_post.body

\* C8: a POST that fails with a transport error or a status other than 200, 429
\* and 400 payload-too-large drops nothing: the batch stays with the indexer and is
\* in the next POST; records leave the indexer only by a 200 or by the discard of a
\* single oversized record.
C8_RetryAfterError ==
    /\ [][Answered({OTHER_STATUS, TRANSPORT_ERROR}) =>
            /\ Range(batch) \subseteq Range(batch_to_send'.remaining)
            /\ Pending(batch_to_send) \subseteq Pending(batch_to_send')
            /\ received' = received /\ discarded' = discarded]_vars
    /\ [][PostsAfter({OTHER_STATUS, TRANSPORT_ERROR}) =>
            Range(last_post.body) \subseteq Range(batch')]_vars
    /\ [][(IndexerHeld \ IndexerHeld') # {} =>
            /\ Answered({OK, PAYLOAD_TOO_LARGE})
            /\ (IndexerHeld \ IndexerHeld') \subseteq
                 (Range(received') \cup discarded')]_vars

\* C8 witness: a batch that failed with a transport error is being POSTed again
\* together with the remainder that was pending.
C8_Witness ==
    /\ ipc = "post"
    /\ last_post.status = TRANSPORT_ERROR
    /\ Range(last_post.body) \subseteq Range(batch)
    /\ Len(batch) > Len(last_post.body)

\* C9 (as stated): every POST body lists records in the order the batcher emitted
\* them, and quickwit accepts them in that order.
C9_PostsKeepBatcherOrder ==
    /\ IsSorted(batch)
    /\ IsSorted(received)

C11_BufferedAtMostMaxWait ==
    (bpc = "select" /\ Len(buffer) > 0) => buffer_age <= max_wait_time

\* C12: a log call has exactly three outcomes. A LogLine with no timestamp, no
\* line variant, or (Gelf, GenericLog) an extra that is not a JSON object returns
\* InvalidArgument and queues nothing; a well-formed one returns Unavailable and
\* queues nothing when the ingest queue is closed, and otherwise is appended once
\* to the ingest queue and returns OK. A rejected record never enters the pipeline.
C12_LogThreeOutcomes ==
    /\ [][next_id' # next_id =>
            LET r == next_id
                value == log_request'
                malformed == \/ ~value.timestamp
                             \/ value.line = "none"
                             \/ value.line \in {"gelf", "generic"}
                                  /\ ~value.extra_is_object
            IN  \/ /\ malformed
                   /\ log_invalid' = log_invalid \cup {r}
                   /\ UNCHANGED <<input_chan, log_ok, log_unavailable>>
                \/ /\ ~malformed /\ input_closed
                   /\ log_unavailable' = log_unavailable \cup {r}
                   /\ UNCHANGED <<input_chan, log_ok, log_invalid>>
                \/ /\ ~malformed /\ ~input_closed
                   /\ log_ok' = log_ok \cup {r}
                   /\ input_chan' = Append(input_chan, r)
                   /\ UNCHANGED <<log_unavailable, log_invalid>>]_vars
    /\ [](log_ok \cap log_unavailable = {} /\ log_ok \cap log_invalid = {}
            /\ log_unavailable \cap log_invalid = {})
    /\ [](log_ok \cup log_unavailable \cup log_invalid = 1..(next_id - 1))
    /\ []((InCollector \cup Range(received)) \cap (log_invalid \cup log_unavailable) = {})
    /\ [](NoDuplicates(input_chan \o buffer \o Flatten(batch_chan) \o received))

\* C12 witness: the three outcomes occurred, each for a different reason: a syslog
\* line without timestamp was rejected, a line was accepted, a line was refused
\* after the batcher closed the queue.
C12_Witness ==
    /\ log_ok # {}
    /\ log_unavailable # {}
    /\ Cardinality(log_invalid) >= 2
    /\ log_request.line = "syslog" /\ ~log_request.timestamp
    /\ next_id - 1 \in log_invalid

\* ----------------------------------------------- shipper: ingresses under load

\* The GELF and syslog sources feeding a connected egress sender whose calls are
\* answered OK; no shutdown is requested.
NextIngress ==
    \/ ClientWrite \/ ClientWriteBytes \/ ClientWriteNul \/ ClientClose
    \/ HandlerRead \/ HandlerEof
    \/ ForwarderRecv \/ ForwarderSend
    \/ SyslogReceive
    \/ SyslogForwarderRecv \/ SyslogForwarderSend
    \/ EgressConnectOk \/ EgressTop \/ EgressAnswer("Ok") \/ EgressRecv

SpecIngress == Init /\ [][NextIngress]_vars

\* ------------------------------------- the syslog depth gauge, step by step

\* The syslog listener and its forwarder run as two tasks of the multi-threaded
\* runtime: their statements interleave. The egress sender delivers.
NextGauge ==
    \/ SyslogTrySend \/ SyslogGaugeAdd
    \/ SyslogForwarderTake \/ SyslogForwarderGaugeSub \/ SyslogForwarderSend
    \/ EgressConnectOk \/ EgressTop \/ EgressAnswer("Ok") \/ EgressRecv

SpecGauge == Init /\ [][NextGauge]_vars

\* ------------------------------------------------- every bounded queue in use

\* The three sources, the GELF and file forwarders, the egress sender, and a
\* collector whose backend answers 200. Nothing is shut down and the syslog
\* forwarder is not scheduled, so every queue can fill up.
NextQueues ==
    \/ ClientWrite \/ HandlerRead
    \/ ForwarderRecv \/ ForwarderSend
    \/ SyslogReceive
    \/ TailerLine
    \/ FileForwarderRecv \/ FileForwarderSend
    \/ EgressConnectOk \/ EgressTop \/ EgressLogOk \/ EgressRecv
    \/ BatcherMaxWait /\ UNCHANGED timer_vars
    \/ BatcherRecv /\ UNCHANGED timer_vars
    \/ BatcherSend /\ UNCHANGED timer_vars
    \/ IndexerQuickwitOk

SpecQueues == Init /\ [][NextQueues]_vars

\* ------------------------------------------------- shipper: shutdown (lib.rs)

\* The shipper alone with GELF and file traffic and an idle syslog listener, the
\* collector answering OK or being unavailable; the client may stop between the
\* two writes of send_log.
NextShutdown ==
    \/ ClientWriteBytes \/ ClientWriteNul \/ ClientClose
    \/ ShipperShutdown \/ ListenerCancelled
    \/ HandlerRead \/ HandlerEof \/ HandlerCancelled
    \/ ForwarderRecv \/ ForwarderSend
    \/ SyslogCancelled \/ SyslogForwarderRecv
    \/ TailerLine \/ TailerCancelled
    \/ FileForwarderRecv \/ FileForwarderSend
    \/ EgressConnectOk \/ EgressConnectErr \/ EgressTop
    \/ EgressAnswer("Ok") \/ EgressAnswer("Unavailable")
    \/ EgressMetrics \/ EgressRecv

\* The tokio runtime runs every spawned task that can take a step; what the peers
\* (GELF client, syslog senders, the tailed file, the operator) do is not forced.
ShipperTasksFair ==
    /\ WF_vars(ListenerCancelled)
    /\ WF_vars(HandlerRead) /\ WF_vars(HandlerEof) /\ WF_vars(HandlerCancelled)
    /\ WF_vars(ForwarderRecv) /\ WF_vars(ForwarderSend)
    /\ WF_vars(SyslogCancelled)
    /\ WF_vars(SyslogForwarderRecv)
    /\ WF_vars(TailerCancelled)
    /\ WF_vars(FileForwarderRecv) /\ WF_vars(FileForwarderSend)
    /\ WF_vars(EgressConnectOk \/ EgressConnectErr)
    /\ WF_vars(EgressTop)
    /\ WF_vars(EgressAnswer("Ok") \/ EgressAnswer("Unavailable"))
    /\ WF_vars(EgressMetrics) /\ WF_vars(EgressRecv)

SpecShutdown == Init /\ [][NextShutdown]_vars /\ ShipperTasksFair

\* ------------------------------------------------- shipper: one tailed file

\* A file whose path stays in files_in, its tailer and forwarder, the egress sender
\* and a collector that answers OK or is unavailable; the operator may shut down.
NextFiles ==
    \/ TailerLine \/ TailerUnparsedLine \/ TailerCancelled
    \/ ShipperShutdown
    \/ FileForwarderRecv \/ FileForwarderSend
    \/ EgressConnectOk \/ EgressConnectErr \/ EgressTop
    \/ EgressAnswer("Ok") \/ EgressAnswer("Unavailable")
    \/ EgressMetrics \/ EgressRecv

SpecFiles == Init /\ [][NextFiles]_vars

\* The same file when a reload may drop its path from files_in. A ready task
\* is run; lines.next_line() returns only once the file has grown, which nothing
\* makes happen.
NextFilesReload == NextFiles \/ ReloadRemovesPath \/ TailerNotMonitored

FilesReloadFair ==
    /\ WF_vars(TailerCancelled)
    /\ WF_vars(FileForwarderRecv) /\ WF_vars(FileForwarderSend)
    /\ WF_vars(EgressConnectOk \/ EgressConnectErr)
    /\ WF_vars(EgressTop)
    /\ WF_vars(EgressAnswer("Ok") \/ EgressAnswer("Unavailable"))
    /\ WF_vars(EgressMetrics) /\ WF_vars(EgressRecv)

SpecFilesReload == Init /\ [][NextFilesReload]_vars /\ FilesReloadFair

\* The egress step that handles the answer to a log call, and the one that starts
\* a call.
EgressAnswered == gpc = "call" /\ gpc' # "call"
EgressCalls == gpc = "top" /\ gpc' = "call"

\* C13: a record whose log call is answered OK, InvalidArgument or OutOfRange is
\* consumed: the sender holds nothing, goes to the select! for the next record of
\* the egress queue, and no later call carries the record; the processed counter
\* counts exactly the OK answers.
C13_AnsweredRecordNotResent ==
    /\ [][(EgressAnswered /\ last_call'.code \in {"Ok", "InvalidArgument", "OutOfRange"})
            => /\ current_log_line' = 0
               /\ gpc' = "select"
               /\ consumed' = consumed \cup {current_log_line}
               /\ SHIPPER_PROCESSED_COUNT' = SHIPPER_PROCESSED_COUNT
                     + (IF last_call'.code = "Ok" THEN 1 ELSE 0)]_vars
    /\ [][EgressCalls => current_log_line \notin consumed]_vars
    /\ [](consumed \cap (Range(grpc_chan) \cup {current_log_line}) = {})
    /\ [](SHIPPER_PROCESSED_COUNT = Len(delivered))
    /\ [](NoDuplicates(delivered))

\* C13 witness: three records were answered InvalidArgument, OutOfRange and OK,
\* each once, and the sender is back at the select!.
C13_Witness ==
    /\ gpc = "select"
    /\ Cardinality(consumed) = 3
    /\ Len(delivered) = 1
    /\ SHIPPER_ERROR_COUNT = 2
    /\ last_call.code = "OutOfRange"

\* C14: a log call that fails with a code other than InvalidArgument and OutOfRange
\* keeps the record; the next call carries the same record and nothing is taken
\* from the egress queue in between; with the token not cancelled the loop top
\* goes straight to that call; the sender takes a record only when it holds none,
\* and records are consumed and delivered in the order they left the egress queue.
C14_FailedRecordRetriedFirst ==
    /\ [][(EgressAnswered /\ last_call'.code \notin {"Ok", "InvalidArgument", "OutOfRange"})
            => /\ current_log_line' = current_log_line
               /\ current_log_line' # 0
               /\ gpc' = "top"
               /\ UNCHANGED <<grpc_chan, taken, consumed, delivered>>]_vars
    /\ [][(EgressCalls /\ last_call.code \in {"Unavailable", "Internal"})
            => current_log_line = last_call.record]_vars
    /\ [][(gpc = "top" /\ gpc' # "top" /\ current_log_line # 0 /\ ~shipper_token)
            => gpc' = "call"]_vars
    /\ [][taken' # taken => (current_log_line = 0 /\ Range(taken) \subseteq consumed)]_vars
    /\ [](gpc = "select" => current_log_line = 0)
    /\ [](\A i, j \in 1..Len(delivered) : i < j =>
            \E k, l \in 1..Len(taken) :
               k < l /\ taken[k] = delivered[i] /\ taken[l] = delivered[j])

\* C14 witness: a record refused twice is being sent a third time while the next
\* record waits in the egress queue.
C14_Witness ==
    /\ gpc = "call"
    /\ SHIPPER_ERROR_COUNT = 2
    /\ last_call.code = "Unavailable"
    /\ last_call.record = current_log_line
    /\ Len(grpc_chan) > 0
    /\ ~shipper_token

\* C15 (as stated): when the sender exits holding a record it took from the egress
\* queue, it has made a send attempt for that record.
C15_HeldRecordAttemptedBeforeExit ==
    (gpc = "done" /\ current_log_line # 0) => current_log_line \in attempted

\* C16 (as stated): once shutdown() has cancelled the root token, the forwarders
\* of the three sources and the egress sender all terminate, so shutdown() returns.
C16_ShipperShutdownReturns == shipper_token ~> shipper_shutdown_returned

\* C17: after shutdown() cancels the root token the batcher closes the ingest
\* queue, moves what it holds into its buffer, flushes and exits with nothing left;
\* the indexer exits only after the batcher, with the batch queue empty and every
\* batch the batcher sent posted; and, the backend answering 200 again and again,
\* shutdown() returns.
C17_CollectorShutdownReturns ==
    /\ shutdown_token ~> collector_shutdown_returned
    /\ [][(~input_closed /\ input_closed')
            => /\ shutdown_token
               /\ input_chan' = <<>>
               /\ buffer' = buffer \o input_chan
               /\ bpc' = IF Len(buffer') > 0 THEN "send" ELSE "done"]_vars
    /\ [](bpc = "done" => (input_closed /\ input_chan = <<>> /\ buffer = <<>>))
    /\ [](ipc = "done" =>
            /\ bpc = "done"
            /\ batch_chan = <<>>
            /\ IndexerHeld = {}
            /\ Range(Flatten(sent_batches)) \subseteq Range(received) \cup discarded)

\* C17 witness: shutdown() has returned after the batcher flushed a last, partial
\* batch and the indexer posted it.
C17_Witness ==
    /\ collector_shutdown_returned
    /\ Len(sent_batches) >= 2
    /\ Len(sent_batches[Len(sent_batches)]) < max_batch_size
    /\ Range(sent_batches[Len(sent_batches)]) \subseteq Range(received)

\* The GELF handler decodes a complete frame; the syslog listener a datagram.
GelfFrameDecoded == hpc = "run" /\ Len(socket) > 0 /\ socket' = Tail(socket)
                    /\ Head(socket).part # "head"
SyslogDatagramDecoded == datagrams' # datagrams

\* C18: when the GELF handler or the syslog listener finds its queue full, the
\* queue keeps its records in their order and the incoming record is in no queue,
\* the error counter of the source goes up by one and its depth gauge does not
\* move; and the error counter moves in no other step.
C18_FullDropsIncomingOnly ==
    /\ [][(GelfFrameDecoded /\ Len(gelf_chan) = gelf_buffer_size)
            => /\ gelf_chan' = gelf_chan
               /\ Head(socket).id \notin Range(gelf_chan')
               /\ GELF_ERROR_COUNT' = GELF_ERROR_COUNT + 1
               /\ GELF_QUEUE_COUNT' = GELF_QUEUE_COUNT
               /\ UNCHANGED <<syslog_chan, grpc_chan, log_line>>]_vars
    /\ [][(SyslogDatagramDecoded /\ Len(syslog_chan) = syslog_buffer_size)
            => /\ syslog_chan' = syslog_chan
               /\ SyslogRecord(datagrams') \notin Range(syslog_chan')
               /\ SYSLOG_ERROR_COUNT' = SYSLOG_ERROR_COUNT + 1
               /\ SYSLOG_QUEUE_COUNT' = SYSLOG_QUEUE_COUNT
               /\ UNCHANGED <<gelf_chan, grpc_chan, syslog_line>>]_vars
    /\ [][GELF_ERROR_COUNT' # GELF_ERROR_COUNT
            => (GelfFrameDecoded /\ Len(gelf_chan) = gelf_buffer_size)]_vars
    /\ [][SYSLOG_ERROR_COUNT' # SYSLOG_ERROR_COUNT
            => (SyslogDatagramDecoded /\ Len(syslog_chan) = syslog_buffer_size)]_vars

\* C18 witness: both sources dropped a record on a full queue, and both queues are
\* still full.
C18_Witness ==
    /\ GELF_ERROR_COUNT = 1
    /\ SYSLOG_ERROR_COUNT = 1
    /\ Len(gelf_chan) = gelf_buffer_size
    /\ Len(syslog_chan) = syslog_buffer_size

\* C19 (as stated): with no shutdown requested, the syslog listener is still
\* receiving after it dropped a datagram on Full, and the GELF handler of an open
\* connection is still reading after it dropped a frame on Full.
C19_IngressRunsAfterFullDrop ==
    ~shipper_token =>
        /\ SYSLOG_ERROR_COUNT > 0 => spc = "run"
        /\ (GELF_ERROR_COUNT > 0 /\ ~client_closed) => hpc = "run"

Specified(exclusion_filter) ==
    {field \in {"appname", "facility", "message"} : exclusion_filter[field] # None}
MessageField(m, field) == IF field = "message" THEN Some(m.msg) ELSE m[field]
Applicable(exclusion_filter, m) ==
    {field \in Specified(exclusion_filter) : MessageField(m, field) # None}
FieldMatches(exclusion_filter, m, field) ==
    /\ MessageField(m, field) # None
    /\ MessageField(m, field)[1] \in exclusion_filter[field][1]
Decision(exclusion_filter, m) ==
    /\ Applicable(exclusion_filter, m) # {}
    /\ \A field \in Applicable(exclusion_filter, m) :
          FieldMatches(exclusion_filter, m, field)

\* With no filter configured no message is excluded, and a filter whose appname
\* pattern does not match the message's appname does not exclude it.
NoFilterOrAppnameMismatch ==
    /\ (excluded # None /\ exclusion_filters = <<>>) => excluded = Some(FALSE)
    /\ ( /\ excluded # None /\ Len(exclusion_filters) > 0
         /\ exclusion_filters[1].appname # None /\ message.appname # None
         /\ ~is_match(exclusion_filters[1].appname[1], message.appname[1]) )
       => excluded = Some(FALSE)

SeverityTable ==
    {<<"Emergency", "FATAL4", 24>>, <<"Alert", "FATAL3", 23>>, <<"Critical", "FATAL", 21>>,
     <<"Error", "ERROR", 17>>, <<"Warning", "WARN", 13>>, <<"Notice", "INFO3", 11>>,
     <<"Info", "INFO", 9>>, <<"Debug", "DEBUG", 5>>}

\* C24: whatever the variant of the LogLine, an emitted IndexLogEntry carries the
\* OTel name and number that the table gives for the line's syslog severity, the
\* number within 1..24.
C24_SeverityFollowsTable ==
    (index_log_entry # None /\ index_log_entry[1].is_ok) =>
        /\ <<try_from_value.severity, index_log_entry[1].severity_text,
              index_log_entry[1].severity_number>> \in SeverityTable
        /\ index_log_entry[1].severity_number \in 1..24
        /\ index_log_entry[1].log_system = try_from_value.line

\* C24 witness: a syslog line of severity Notice became an entry INFO3, 11.
C24_Witness ==
    /\ try_from_value.line = "syslog" /\ try_from_value.severity = "Notice"
    /\ index_log_entry # None /\ index_log_entry[1].is_ok
    /\ index_log_entry[1].severity_text = "INFO3"
    /\ index_log_entry[1].severity_number = 11

\* The egress sender's metrics branch ran: a snapshot was built and reported.
MetricsReported == gpc = "select" /\ gpc' = "top" /\ UNCHANGED taken

\* C25 (as stated): every snapshot the shipper reports keys its three maps by
\* gelf_in, syslog_in, files_in and grpc_out.
C25_SnapshotKeyedByQueueNames ==
    [][MetricsReported =>
         \A map \in {"queue_count", "processed_count", "error_count"} :
            DOMAIN to_grpc_metrics[map] = {"gelf_in", "syslog_in", "files_in", "grpc_out"}]_vars

\* The files a directory load is to take: present, not hidden, with the extension of
\* the glob.
Contributing(dir) ==
    {file \in Files : /\ dir[file] # None
                      /\ ~FileNames[file].leading_dot
                      /\ FileNames[file].extension = "yml"}

\* Every contributing file can be read and holds YAML.
AllFragmentsValid(dir) == \A file \in Contributing(dir) : dir[file][1].kind = "yaml"

\* The contributing files that set a key.
SetBy(dir, key) == {file \in Contributing(dir) : key \in DOMAIN dir[file][1].config}

\* The snapshot a directory stands for: each key set by a contributing file, with the
\* value of the last such file in filename order.
ExpectedSnapshot(dir) ==
    [key \in {k \in UNION {DOMAIN config : config \in Fragments} : SetBy(dir, k) # {}} |->
        LET last == CHOOSE file \in SetBy(dir, key) : \A other \in SetBy(dir, key) : other <= file
        IN  dir[last][1].config[key]]

\* A step that loads the directory: the set-up or one iteration of its watcher.
DirectoryLoad ==
    /\ config_watcher \in {"none", "dir"}
    /\ config_watcher' \in {"dir", "returned"}
    /\ UNCHANGED <<directory, modified>>

\* C26: loading a config directory whose fragments are all valid publishes the
\* default extended with each non-hidden file matching the glob, in filename order:
\* a later file overrides an earlier one, hidden and non-matching files contribute
\* nothing, and a key no fragment sets any more is absent.
C26_DirectoryLoadRebuildsFromDefault ==
    [][DirectoryLoad /\ AllFragmentsValid(directory)
         => config_store' = ExpectedSnapshot(directory)]_vars

\* C26 witness: after a rewrite of 01.yml the watcher published a snapshot without
\* first-plop, where 02.yml overrides `multiple` and .hidden.yml contributes nothing.
C26_Witness ==
    /\ config_watcher = "dir"
    /\ notifications = 1
    /\ modified[path] = 1
    /\ directory[1] = Some([kind |-> "yaml", config |-> "first-plop" :> "foobar"])
    /\ directory[4] = Some([kind |-> "yaml", config |-> "first-plop" :> "foobar"])
    /\ directory[2] = Some([kind |-> "yaml",
                            config |-> "first" :> "foo" @@ "multiple" :> "let's"])
    /\ directory[3] = Some([kind |-> "yaml",
                            config |-> "second" :> "foobar" @@ "multiple" :> "let's go!"])
    /\ config_store = "first" :> "foo" @@ "second" :> "foobar" @@ "multiple" :> "let's go!"

\* What the running watcher reloads from cannot be loaded: the config file is gone,
\* unreadable or invalid, or one fragment of the directory is unreadable or invalid.
SourceBroken ==
    \/ /\ config_watcher = "file"
       /\ directory[path] = None \/ directory[path][1].kind # "yaml"
    \/ /\ config_watcher = "dir"
       /\ ~AllFragmentsValid(directory)

\* C27: a reload that fails leaves the published snapshot as it was, sends no
\* notification and leaves the watcher running.
C27_FailedReloadKeepsSnapshot ==
    [][SourceBroken /\ UNCHANGED <<directory, modified>>
         => UNCHANGED <<config_store, notifications, config_watcher>>]_vars

\* C27 witness: the directory watcher logged a failed reload and the store still
\* holds the snapshot of the set-up, which the directory no longer stands for.
C27_Witness ==
    /\ config_watcher = "dir"
    /\ watcher_log = "Unable to read configuration"
    /\ ~AllFragmentsValid(directory)
    /\ config_store # TestConfig_default
    /\ notifications = 0

\* C28 (as stated): while the shutdown token has not fired and the path is still
\* configured, the tailer goes on to the next line after each line it handled,
\* matching or not: its task ends only on shutdown.
C28_TailerGoesOnToNextLine == tpc = "done" => shipper_token

\* The records of the GELF connection inside the shipper, the one nearest to the
\* collector first: held by the egress sender, on the egress queue, held by the
\* forwarder, on the gelf queue. A record is the number of its frame on the
\* connection.
GelfInFlight ==
    SelectSeq(<<current_log_line>> \o grpc_chan \o <<log_line>> \o gelf_chan,
              LAMBDA r : r \in 1..MaxFrames)

\* C29: the records of one GELF connection are on the gelf queue, with the
\* forwarder and on the egress queue in the order their frames arrived: every
\* record is behind the records of all earlier frames.
C29_GelfOrderKept ==
    \A i, j \in 1..Len(GelfInFlight) : i < j => GelfInFlight[i] < GelfInFlight[j]

\* C29 witness: three records of the connection are in flight behind one another,
\* one on the egress queue next to a syslog record, one with the forwarder, one on
\* the gelf queue.
C29_Witness ==
    /\ Len(GelfInFlight) >= 3
    /\ \E i \in 1..Len(grpc_chan) : grpc_chan[i] \in 1..MaxFrames
    /\ \E i \in 1..Len(grpc_chan) : grpc_chan[i] \notin 1..MaxFrames
    /\ log_line # 0
    /\ gelf_chan # <<>>

\* C30 (as stated): once the ingest queue is closed without the shutdown token
\* having fired, the batcher drains it, flushes its buffer and exits, which closes
\* the batch queue.
C30_ClosedInputEndsBatcher ==
    (input_closed /\ ~shutdown_token)
        ~> (input_chan = <<>> /\ buffer = <<>> /\ batch_chan_closed)

\* C31 (as stated): after the global token fires the GELF connection handler
\* exits, also when a partial frame is in its buffer and the peer sends nothing
\* more.
C31_GelfHandlerExitsAfterShutdown == shipper_token ~> (hpc = "done")

\* C32: a record the forwarder takes and cannot convert raises the input's error
\* counter by one, puts nothing on the egress queue and leaves the forwarder at
\* its recv, so no such record is ever on the egress path; a forwarder that finds
\* the egress queue closed exits; and a forwarder exits from its recv only when the
\* input queue is closed and nothing is queued any more.
C32_ForwarderDiscardsAndExits ==
    /\ [][(fpc = "recv" /\ gelf_chan # <<>> /\ gelf_chan' = Tail(gelf_chan)
            /\ Head(gelf_chan) \in not_objects)
           => /\ GELF_ERROR_COUNT' = GELF_ERROR_COUNT + 1
              /\ grpc_chan' = grpc_chan
              /\ log_line' = log_line
              /\ fpc' = "recv"]_vars
    /\ []((Range(grpc_chan) \cup {log_line, current_log_line}) \cap not_objects = {})
    /\ [][(fpc = "send" /\ gpc = "done" /\ fpc' # fpc) => fpc' = "done"]_vars
    /\ [][(fpc = "recv" /\ fpc' = "done") => (gelf_chan = <<>> /\ gelf_chan_closed)]_vars
    /\ []((fpc = "done" /\ gpc # "done") => (gelf_chan = <<>> /\ gelf_chan_closed))

\* C32 witness: the forwarder discarded a frame that is no GELF log, with the
\* handler still running, and went on to put a later frame on the egress queue.
C32_Witness ==
    /\ GELF_ERROR_COUNT = 1
    /\ hpc = "run"
    /\ 1 \in not_objects
    /\ 2 \in Range(grpc_chan)
    /\ fpc = "recv"

\* C33: a report_metrics call leaves the processed and the error counter of the
\* label pair equal to the reported counts: raised by the difference when the
\* report is higher, started over from zero and raised to the report otherwise; it
\* answers OK.
C33_CountersFollowReport ==
    [][metrics' # metrics
         => /\ collector_processed_counter' = metrics'[1].processed_count
            /\ collector_error_counter' = metrics'[1].error_count
            /\ report_metrics_response' = "Ok"]_vars

\* C33 witness: a report with a processed count above zero and an error count of
\* zero (never above the counter: the reset branch) was answered.
C33_Witness ==
    /\ metrics = Some([queue_count |-> 1, processed_count |-> MaxCount, error_count |-> 0])
    /\ report_metrics_response = "Ok"
    /\ collector_processed_counter = MaxCount
    /\ collector_error_counter = 0

\* C34 (as stated): a numeric severity becomes the variant of that value for 0..7
\* and Debug for every other value, and a GELF record whose level is an integer
\* outside 0..7 is indexed with severity_text DEBUG.
C34_OutOfRangeLevelIsDebug ==
    /\ syslog_severity # None
         => syslog_severity[1] = IF u64_value \in 0..7
                                 THEN SyslogSeverityByValue[u64_value + 1]
                                 ELSE "Debug"
    /\ (gelf_severity_text # None /\ level # None /\ ~InRange0to7(level[1]))
         => gelf_severity_text[1] = "DEBUG"

\* C35 (as stated): once the path is gone from the config, the tailer task exits
\* without waiting for shutdown.
C35_TailerExitsOnceRemoved == ~path_configured ~> (tpc = "done")

\* C35 (amended): a tailer that reads a line after the path is gone from the
\* config exits there, shutdown or not, and no record is put on the file's queue
\* once the path is gone.
C35_TailerExitsAtNextLine ==
    /\ [][(~path_configured /\ tpc = "select" /\ tpc' # tpc)
            => (tpc' = "done" /\ files_chan' = files_chan)]_vars
    /\ [][~path_configured => Len(files_chan') <= Len(files_chan)]_vars

\* C35 witness: the path was removed, the tailer ended without having sent a
\* record, and no shutdown was requested.
C35_Witness ==
    /\ ~path_configured
    /\ tpc = "done"
    /\ ~shipper_token
    /\ files_chan = <<>>
    /\ ffpc = "done"
    /\ SHIPPER_QUEUE_COUNT = 0

\* C36 (as stated): the egress gauge is decremented once for each record the
\* egress sender takes, not again when the record is retried, and it never drops
\* below zero: it is never above the number of records the egress queue and the
\* sender can hold.
C36_EgressGaugeOncePerRecord ==
    /\ [][SHIPPER_QUEUE_COUNT' = fetch_sub(SHIPPER_QUEUE_COUNT)
            => current_log_line \notin attempted]_vars
    /\ [](SHIPPER_QUEUE_COUNT <= grpc_out_buffer_size + 1)

\* C37 (as stated): however the statements of an ingress and of its forwarder
\* interleave, the depth gauge of the input is never decremented at zero, so it
\* never holds a wrapped value: it stays within the records the queue and the
\* forwarder can hold.
C37_InputGaugeNeverBelowZero ==
    /\ [][SYSLOG_QUEUE_COUNT' = fetch_sub(SYSLOG_QUEUE_COUNT)
            => SYSLOG_QUEUE_COUNT > 0]_vars
    /\ [](SYSLOG_QUEUE_COUNT <= syslog_buffer_size + 1)

\* The number of records the indexer holds: the batch being POSTed and the two
\* fragments of the Batch state.
HeldCount == Len(batch) + Len(batch_to_send.to_send) + Len(batch_to_send.remaining)

\* C38: the indexer receives a batch only when it holds nothing (the state is
\* None), it then holds exactly that batch, and no other step makes the number of
\* records it holds grow: at any time it holds at most the batch it received
\* last.
C38_HeldWithinLastBatch ==
    [][IF ipc = "recv" /\ ipc' = "top"
       THEN /\ batch_to_send.tag = "None"
            /\ HeldCount = 0
            /\ HeldCount' = Len(Head(batch_chan))
            /\ batch_to_send' = Single(Head(batch_chan))
       ELSE HeldCount' <= HeldCount]_vars

\* C38 witness: a full batch was refused as too large and split, its first half
\* was refused with 429 and pushed back behind the second half: all its records
\* are still held, none twice.
C38_Witness ==
    /\ HeldCount = max_batch_size
    /\ batch_to_send.tag = "Single"
    /\ Len(batch_to_send.remaining) = max_batch_size
    /\ NoDuplicates(batch_to_send.remaining)
    /\ last_post.status = TOO_MANY_REQUESTS
    /\ last_post.previous = PAYLOAD_TOO_LARGE

\* The NUL-terminated frames of a byte sequence, in order, without their 0 byte;
\* bytes after the last 0 belong to no frame yet.
RECURSIVE FramesOf(_)
FramesOf(bytes) ==
    IF 0 \notin Range(bytes) THEN <<>>
    ELSE LET i == CHOOSE k \in 1..Len(bytes) :
                      bytes[k] = 0 /\ \A j \in 1..(k - 1) : bytes[j] # 0
         IN  <<SubSeq(bytes, 1, i - 1)>> \o FramesOf(SubSeq(bytes, i + 1, Len(bytes)))

\* C39 (as stated): however the bytes were split across the reads, the handler
\* made one decode attempt for each NUL-terminated frame of the bytes it read, in
\* order and on the frame's bytes, whether earlier frames decoded or not.
C39_FramingIgnoresChunking ==
    decode_attempts = FramesOf(SubSeq(stream, 1, stream_read))

\* Every record inside the collector, in the order of the pipeline, and the
\* documents quickwit accepted.
CollectorRecords ==
    input_chan \o buffer \o Flatten(batch_chan) \o batch \o batch_to_send.to_send
        \o batch_to_send.remaining \o received

\* C40: only records whose log call returned OK are inside the collector or
\* indexed; a call that was suspended on a full queue when the batcher closed it
\* returns Unavailable and queues nothing; a record answered Unavailable is never
\* answered OK when it is sent again; and no record is in the collector or indexed
\* twice.
C40_UnacceptedNeverBatched ==
    /\ [](Range(CollectorRecords) \subseteq log_ok)
    /\ [](log_ok \cap (log_unavailable \cup log_invalid \cup {log_pending}) = {})
    /\ [][(log_pending # 0 /\ log_pending' = 0 /\ input_closed)
            => /\ log_unavailable' = log_unavailable \cup {log_pending}
               /\ UNCHANGED <<input_chan, buffer, log_ok>>]_vars
    /\ [](NoDuplicates(CollectorRecords))

\* C40 witness: a call that was suspended on the full queue was answered
\* Unavailable after the batcher closed it, the shipper sent the record again, and
\* the collector finished with the records it had accepted.
C40_Witness ==
    /\ \E r \in log_blocked : r \in log_unavailable /\ r \in log_retried
    /\ log_invalid # {}
    /\ log_pending = 0
    /\ ipc = "done"
    /\ Len(received) >= input_buffer_size
    /\ Range(received) = log_ok

====
